---- MODULE Spec2Model ----
(***************************************************************************)
(* Model of adac's Communicator (src/adac/communicator.py): the packet     *)
(* fragmenter (create_packets / build_meta_packet), the reassembly path    *)
(* (receive) with its callback, the destructive read (get), send, the      *)
(* constructor, and the lifecycle (listen, stop_listen, close) with the    *)
(* background threads of the UDP and the TCP mode.                         *)
(*                                                                         *)
(* Python values are represented as follows.                               *)
(*   bytes / bytearray   a sequence of naturals 0..255                     *)
(*   dict                a function; "k in d" is k \in DOMAIN d            *)
(*   None                <<>>, and a bytes value b held in a slot that may *)
(*                       also hold None is <<b>> (so b"" is << <<>> >>)    *)
(*   seq_total field     <<n>> for the integer n, <<>> for the empty dict  *)
(*                       that receive stores after a completion (line 660) *)
(***************************************************************************)
EXTENDS Integers, Sequences, FiniteSets, TLC

VARIABLES
    tmp_data,     \* self.tmp_data: addr -> tag integer -> reassembly entry
    data_store,   \* self.data_store: addr -> tag integer -> message or None
    last,         \* the last get (in SpecRT: the last call) and what it returned
    rt,           \* the single-message driver of SpecRT
    sent,         \* the sends the peers have issued, in order
    net,          \* datagrams in flight: <<send index, packet index>> -> copies
    dups,         \* number of datagrams the network has duplicated so far
    arrived,      \* datagrams delivered since the last successful get of their key
    fresh,        \* per key: datagrams delivered since the last seq_total mismatch
    succ,         \* per key: number of gets that returned a message
    cbk,          \* self.recv_callback and the record of its invocations
    snd,          \* the send call under study: its socket outcomes and result
    life,         \* is_open, is_listening, the threads, sockets and connections
    ctor,         \* the constructor call under study: arguments and result
    fn,           \* the call under study of build_tag, get_weights or
                  \* register_recv_callback: its arguments and its result
    cons,         \* the consensus job: every node's run loop and the messages
    rnr           \* the node runner: TASK_RUNNING, request handlers, job processes

netvars == <<sent, net, dups, arrived, fresh, succ>>

\* the variables of the send, lifecycle and constructor specifications
sidevars == <<snd, life, ctor>>

\* the variables of the consensus and runner specifications
extravars == <<fn, cons, rnr>>

vars == <<tmp_data, data_store, last, rt, sent, net, dups, arrived, fresh, succ,
          cbk, snd, life, ctor, fn, cons, rnr>>

----------------------------------------------------------------------------
(* Program constants *)

TAG_SIZE == 4

get_mtu == 576

----------------------------------------------------------------------------
(* Bounds of the model *)

\* payload lengths run up to MaxK full chunks, one byte either side
MaxK == 3

\* number of distinct payload contents per length
MaxSeed == 2

\* messages of more packets than this are fed to receive in emitted order only
MaxPermPkts == 3

\* number of sends the peers issue
MaxSends == 2

\* number of datagrams the network duplicates
MaxDup == 1

\* number of messages sent in a row under one tag
MaxRounds == 3

\* number of public calls made on the transport
MaxCalls == 4

\* number of datagrams and stream reads the background threads receive
MaxRx == 2

----------------------------------------------------------------------------
(* Python primitives *)

Min(a, b) == IF a <= b THEN a ELSE b

EmptyDict == [k \in {} |-> 0]

None == <<>>

Some(v) == <<v>>

\* d[k] = v
Put(d, k, v) == (k :> v) @@ d

\* s[lo:hi] for 0 <= lo, 0 <= hi (Python clamps both ends to len(s))
Slice(s, lo, hi) == SubSeq(s, lo + 1, Min(hi, Len(s)))

\* s[lo:]
SliceFrom(s, lo) == SubSeq(s, lo + 1, Len(s))

\* struct.pack('H', x): 16 bits, low byte first (raises for x >= 65536,
\* which needs a payload of 65536 * 508 bytes and is outside the bounds)
pack_H(x) == <<x % 256, x \div 256>>

\* struct.unpack('H', b)[0] for a 2-byte b
unpack_H(b) == b[1] + 256 * b[2]

RECURSIVE from_bytes_little(_)
\* int.from_bytes(b, byteorder='little')
from_bytes_little(b) ==
    IF Len(b) = 0 THEN 0 ELSE b[1] + 256 * from_bytes_little(Tail(b))

----------------------------------------------------------------------------
(* Wire codec and fragmenter *)

build_meta_packet_swapped(seq_num, seq_total, tag) ==
    pack_H(seq_num) \o pack_H(seq_total) \o Slice(tag, 0, 4)

build_meta_packet(seq_num, seq_total, tag) ==
    pack_H(seq_total) \o pack_H(seq_num) \o Slice(tag, 0, 4)

create_packets_final_bound(data, tag) ==
    LET max_payload == get_mtu - 68
        max_data == max_payload - 8
        total_packets == Len(data) \div max_payload
    IN  IF Len(data) <= max_data
        THEN << build_meta_packet(0, 0, tag) \o data >>
        ELSE [i \in 1..total_packets |->
                 build_meta_packet(i - 1, total_packets, tag)
                     \o Slice(data, (i - 1) * max_data, i * max_data)]
             \o << build_meta_packet(total_packets, total_packets, tag)
                     \o SliceFrom(data, total_packets * max_payload) >>

create_packets(data, tag) ==
    LET max_payload == get_mtu - 68
        metadata_size == 8
        data_size == Len(data)
        max_data == max_payload - metadata_size
    IN  IF data_size <= max_data
        THEN << build_meta_packet(0, 0, tag) \o data >>
        ELSE LET total_packets == data_size \div max_payload
             IN  [i \in 1..total_packets |->
                     build_meta_packet(i - 1, total_packets, tag)
                         \o Slice(data, (i - 1) * max_data, i * max_data)]
                 \o << build_meta_packet(total_packets, total_packets, tag)
                         \o SliceFrom(data, total_packets * max_data) >>

----------------------------------------------------------------------------
(* Reassembly path *)

\* self.tmp_data[addr][data_tag]['packets'][seq_num] = dat
insert_packet_append(packets, seq_num, dat) ==
    Put(packets, Cardinality(DOMAIN packets), dat)

insert_packet(packets, seq_num, dat) == Put(packets, seq_num, dat)

RECURSIVE reassemble(_, _)
\* reassembled = bytes(); for i in range(n): reassembled += packets[i]
reassemble(packets, n) ==
    IF n = 0 THEN <<>> ELSE reassemble(packets, n - 1) \o packets[n - 1]

\* lines 632-637: a seq_total that differs from the stored one throws the
\* collected packets away
reset_entry_keep_packets(entry, seq_total) ==
    IF Some(seq_total) # entry.seq_total \/ entry.seq_total = None
    THEN [seq_total |-> Some(seq_total), packets |-> entry.packets]
    ELSE entry

reset_entry(entry, seq_total) ==
    IF Some(seq_total) # entry.seq_total \/ entry.seq_total = None
    THEN [seq_total |-> Some(seq_total), packets |-> EmptyDict]
    ELSE entry

\* what the message store holds for (addr, tag integer): None when the
\* address or the key is missing or the slot was emptied by a get
Slot(store, addr, tg_int) ==
    IF addr \in DOMAIN store /\ tg_int \in DOMAIN store[addr]
    THEN store[addr][tg_int] ELSE None

\* lines 659-660: after a completion the entry keeps neither packets nor a
\* sequence total
clear_entry(entry) == [seq_total |-> None, packets |-> EmptyDict]

\* the callback slot of a transport on which nothing was registered
NoCallback == [fn |-> None, n |-> 0, call |-> None]

\* lines 656-658: if self.recv_callback != None:
\*                    self.recv_callback(addr, data_tag, reassembled)
\* The callback is handed the integer data_tag.  The model's callback counts
\* its invocations and records its arguments together with what the message
\* store holds for (addr, data_tag) at the moment it is called.
recv_callback(cb, addr, data_tag, reassembled, store) ==
    IF cb.fn # None
    THEN [cb EXCEPT !.n = @ + 1,
                    !.call = Some([addr |-> addr, tag |-> data_tag,
                                   data |-> reassembled,
                                   seen |-> Slot(store, addr, data_tag)])]
    ELSE cb

\* store_message gone wrong: the other slots of the address are dropped
store_message_alone(store, addr, data_tag, reassembled) ==
    Put(store, addr, Put(EmptyDict, data_tag, Some(reassembled)))

store_message_once(store, addr, data_tag, reassembled) ==
    LET store1 == IF addr \in DOMAIN store THEN store
                  ELSE Put(store, addr, EmptyDict)
    IN  IF data_tag \in DOMAIN store1[addr] THEN store1
        ELSE Put(store1, addr, Put(store1[addr], data_tag, Some(reassembled)))

\* lines 649-655: self.data_store[addr][data_tag] = reassembled, the
\* address being entered first when it is new
store_message(store, addr, data_tag, reassembled) ==
    LET store1 == IF addr \in DOMAIN store THEN store
                  ELSE Put(store, addr, EmptyDict)
    IN  Put(store1, addr, Put(store1[addr], data_tag, Some(reassembled)))

complete_callback_first(tmp2, store, cb, addr, data_tag, pkts, num_packets) ==
    LET reassembled == reassemble(pkts, num_packets)
    IN  [tmp |-> Put(tmp2, addr,
                     Put(tmp2[addr], data_tag,
                         clear_entry(tmp2[addr][data_tag]))),
         store |-> store_message(store, addr, data_tag, reassembled),
         cb |-> recv_callback(cb, addr, data_tag, reassembled, store),
         raised |-> FALSE, stored |-> TRUE]

\* lines 645-660: reassemble, write the message store, run the callback,
\* clear the entry
complete(tmp2, store, cb, addr, data_tag, pkts, num_packets) ==
    LET reassembled == reassemble(pkts, num_packets)
        store2 == store_message(store, addr, data_tag, reassembled)
    IN  [tmp |-> Put(tmp2, addr,
                     Put(tmp2[addr], data_tag,
                         clear_entry(tmp2[addr][data_tag]))),
         store |-> store2,
         cb |-> recv_callback(cb, addr, data_tag, reassembled, store2),
         raised |-> FALSE, stored |-> TRUE]

\* Communicator.receive(data, addr) applied to the state (tmp, store, cb).
\* The result carries the new state and whether the call raised
\* (struct.error on a short header, KeyError on a missing index).
receive(tmp, store, cb, data, addr) ==
    LET tmp1 == IF addr \in DOMAIN tmp THEN tmp ELSE Put(tmp, addr, EmptyDict)
    IN  IF Len(data) < 4
        THEN [tmp |-> tmp1, store |-> store, cb |-> cb,
              raised |-> TRUE, stored |-> FALSE]
        ELSE
        LET seq_total == unpack_H(Slice(data, 0, 2))
            seq_num   == unpack_H(Slice(data, 2, 4))
            data_tag  == from_bytes_little(Slice(data, 4, 8))
            dat       == SliceFrom(data, 8)
            entry0 == IF data_tag \in DOMAIN tmp1[addr]
                      THEN tmp1[addr][data_tag]
                      ELSE [seq_total |-> Some(seq_total), packets |-> EmptyDict]
            entry1 == reset_entry(entry0, seq_total)
            pkts   == insert_packet(entry1.packets, seq_num, dat)
            num_packets == Cardinality(DOMAIN pkts)
            tmp2 == Put(tmp1, addr,
                        Put(tmp1[addr], data_tag,
                            [seq_total |-> entry1.seq_total, packets |-> pkts]))
        IN  IF num_packets = seq_total + 1
            THEN IF \E i \in 0..(num_packets - 1) : i \notin DOMAIN pkts
                 THEN [tmp |-> tmp2, store |-> store, cb |-> cb,
                       raised |-> TRUE, stored |-> FALSE]
                 ELSE complete(tmp2, store, cb, addr, data_tag, pkts,
                               num_packets)
            ELSE [tmp |-> tmp2, store |-> store, cb |-> cb,
                  raised |-> FALSE, stored |-> FALSE]

----------------------------------------------------------------------------
(* Destructive read *)

\* get gone wrong: every slot of the address is cleared
get_clear_address(store, ip_addr, tag) ==
    LET tg_int == from_bytes_little(tag)
    IN  IF ip_addr \notin DOMAIN store THEN [ret |-> None, store |-> store]
        ELSE IF tg_int \notin DOMAIN store[ip_addr]
        THEN [ret |-> None, store |-> store]
        ELSE [ret |-> store[ip_addr][tg_int],
              store |-> Put(store, ip_addr,
                            [t \in DOMAIN store[ip_addr] |-> None])]

get_keep(store, ip_addr, tag) ==
    LET tg_int == from_bytes_little(tag)
    IN  IF ip_addr \notin DOMAIN store THEN [ret |-> None, store |-> store]
        ELSE IF tg_int \notin DOMAIN store[ip_addr]
        THEN [ret |-> None, store |-> store]
        ELSE [ret |-> store[ip_addr][tg_int], store |-> store]

\* Communicator.get(ip_addr, tag) applied to the message store
get(store, ip_addr, tag) ==
    LET tg_int == from_bytes_little(tag)
    IN  IF ip_addr \notin DOMAIN store THEN [ret |-> None, store |-> store]
        ELSE IF tg_int \notin DOMAIN store[ip_addr]
        THEN [ret |-> None, store |-> store]
        ELSE [ret |-> store[ip_addr][tg_int],
              store |-> Put(store, ip_addr,
                            Put(store[ip_addr], tg_int, None))]

----------------------------------------------------------------------------
(* Constructor *)

\* str.upper() on the protocol names the callers pass
upper(protocol) ==
    CASE protocol \in {"udp", "UDP"} -> "UDP"
      [] protocol \in {"tcp", "TCP"} -> "TCP"
      [] OTHER -> "UASD"

\* check_port(port) for an integer port: True, or ValueError
check_port(port) == ~(port < 0 \/ port > 65535)

\* Communicator.__init__(protocol, listen_port, send_port): the exception it
\* raises, or the protocol and the two ports of the constructed transport.
\* Line 180 assigns self.send_port = send_port when a send_port was given;
\* line 193 then assigns self.send_port = self.listen_port in every case.
Communicator(protocol, listen_port, send_port) ==
    IF upper(protocol) \notin {"TCP", "UDP"}
    THEN [exc |-> "ValueError", protocol |-> "", listen_port |-> 0,
          send_port |-> 0]
    ELSE IF send_port # None /\ ~check_port(send_port[1])
    THEN [exc |-> "ValueError", protocol |-> "", listen_port |-> 0,
          send_port |-> 0]
    ELSE IF ~check_port(listen_port)
    THEN [exc |-> "ValueError", protocol |-> "", listen_port |-> 0,
          send_port |-> 0]
    ELSE [exc |-> "none", protocol |-> upper(protocol),
          listen_port |-> listen_port, send_port |-> listen_port]

----------------------------------------------------------------------------
(* Lifecycle: close, listen, stop_listen and the background threads *)

\* The transport as the constructor leaves it (lines 204-217).
\*   listen_thread  "none" is self.listen_thread = None; "running" is a thread
\*                  in its loop; "dead" is a thread object whose thread was
\*                  ended by an exception it did not catch
\*   listen_sock    "open" (not bound), "bound" or "closed"
\*   readers        the live __run_connect__ threads: peer -> "check" (at the
\*                  loop condition) or "recv" (in connection.recv)
\* The remaining fields observe the run: the last public call and the
\* exception it raised, the number of public calls, the number of them made
\* after close, the number of listen threads started, and the last datagram
\* the receive loop read.
LifeNew(protocol) ==
    [protocol |-> protocol, is_open |-> TRUE, is_listening |-> FALSE,
     listen_thread |-> "none", listen_sock |-> "open", send_sock |-> "open",
     connections |-> {}, readers |-> EmptyDict,
     call |-> "init", exc |-> "none", calls |-> 0, late |-> 0,
     threads |-> 0, rx |-> None, rxn |-> 0]

\* _sock.bind((host, port)), first statement of __run_listen__ and of
\* __run_tcp__: binds a fresh socket; on a closed or already bound socket it
\* raises OSError, which the thread does not catch
bind(sock) == IF sock = "open" THEN "bound" ELSE sock

\* line 366: _sock.close() when the loop of __run_listen__ ends
run_listen_exit_keep(sock) == sock

run_listen_exit(sock) == "closed"

\* Communicator.stop_listen(): clears the flag and joins the thread; a
\* running UDP loop ends through line 366, the accept loop of __run_tcp__
\* ends without touching the socket, a dead thread is joined at once
stop_listen(l) ==
    IF l.listen_thread # "none"
    THEN [l EXCEPT !.is_listening = FALSE,
                   !.listen_sock =
                       IF l.listen_thread = "running" /\ l.protocol = "UDP"
                       THEN run_listen_exit(@) ELSE @,
                   !.listen_thread = "none"]
    ELSE l

close_stay_open(l) ==
    IF l.is_open
    THEN [st |-> [stop_listen(l) EXCEPT !.listen_sock = "closed",
                                        !.send_sock = "closed"],
          exc |-> "none"]
    ELSE [st |-> l, exc |-> "BrokenPipeError"]

\* Communicator.close()
close(l) ==
    IF l.is_open
    THEN [st |-> [stop_listen(l) EXCEPT !.listen_sock = "closed",
                                        !.send_sock = "closed",
                                        !.is_open = FALSE],
          exc |-> "none"]
    ELSE [st |-> l, exc |-> "BrokenPipeError"]

\* Communicator.listen(): when no thread object exists, one is created and
\* started; the thread binds the listening socket and enters its loop, or is
\* ended by the OSError of bind
listen(l) ==
    IF ~l.is_open
    THEN [st |-> l, exc |-> "BrokenPipeError"]
    ELSE IF l.listen_thread = "none"
    THEN [st |-> [l EXCEPT !.is_listening = TRUE,
                           !.listen_thread = IF l.listen_sock = "open"
                                             THEN "running" ELSE "dead",
                           !.listen_sock = bind(@),
                           !.threads = @ + 1],
          exc |-> "none"]
    ELSE [st |-> l, exc |-> "none"]

\* Communicator.receive_tcp(data, addr) applied to the message store
receive_tcp(store, data, addr) ==
    IF Len(data) < 4 THEN store
    ELSE LET data_tag == from_bytes_little(Slice(data, 0, 4))
             store1 == IF addr \in DOMAIN store THEN store
                       ELSE Put(store, addr, EmptyDict)
         IN  Put(store1, addr, Put(store1[addr], data_tag,
                                   Some(SliceFrom(data, 4))))

\* the transport open and listening: the constructor, then listen()
LifeListening == listen(LifeNew("UDP")).st

----------------------------------------------------------------------------
(* send *)

\* what one call of send_sock.sendto does: it returns a byte count >= 0,
\* returns a negative count, or raises OSError
Outcomes == {"ok", "neg", "err"}

\* the index of the first sendto that raises, 0 when none does
FirstErr(outs) ==
    IF \E i \in 1..Len(outs) : outs[i] = "err"
    THEN CHOOSE i \in 1..Len(outs) :
            /\ outs[i] = "err"
            /\ \A j \in 1..(i - 1) : outs[j] # "err"
    ELSE 0

send_no_break(is_open, packets, outs) ==
    IF ~is_open
    THEN [exc |-> "BrokenPipeError", ret |-> FALSE, attempts |-> 0]
    ELSE [exc |-> "none",
          ret |-> \A i \in 1..Len(packets) : outs[i] = "ok",
          attempts |-> Len(packets)]

\* Communicator.send after create_packets (lines 481-498), outs[i] being the
\* outcome of the i-th sendto: the loop runs until the packets are exhausted
\* or a sendto raises; ret is False once a sendto returned a negative count
\* or raised.  attempts is the number of sendto calls made.
send(is_open, packets, outs) ==
    IF ~is_open
    THEN [exc |-> "BrokenPipeError", ret |-> FALSE, attempts |-> 0]
    ELSE LET e == FirstErr(SubSeq(outs, 1, Len(packets)))
             attempts == IF e = 0 THEN Len(packets) ELSE e
         IN  [exc |-> "none",
              ret |-> \A i \in 1..attempts : outs[i] = "ok",
              attempts |-> attempts]

SndIdle == [pc |-> "idle", data |-> <<>>, tag |-> <<>>, n |-> 0,
            outs |-> <<>>, exc |-> "none", ret |-> FALSE, attempts |-> 0]

CtorIdle == [pc |-> "idle", protocol |-> "", listen_port |-> 0,
             send_port |-> None, obj |-> Communicator("", 0, None)]

----------------------------------------------------------------------------
(* Inputs *)

\* a payload of the given length whose bytes differ from chunk to chunk
\* and from seed to seed
MkData(len, seed) == [i \in 1..len |-> (i + 37 * seed) % 251]

max_data == (get_mtu - 68) - 8

max_payload == get_mtu - 68

RTLens ==
    {0, 1, 10 * max_data}
    \cup {k * max_data + d : k \in 1..MaxK, d \in {-1, 0, 1}}
    \cup {k * max_payload + d : k \in 1..MaxK, d \in {-1, 0, 1}}

\* tags as the callers pass them: 4 bytes, or longer (truncated to 4)
RTTags == { <<1, 0, 0, 0>>, <<116, 97, 103, 49>>, <<110, 111, 105, 99, 101>> }

NoLast == [op |-> "init", addr |-> "", tag |-> <<>>, val |-> None]

Addrs == {"a1"}

NetTags == { <<1, 0, 0, 0>>, <<2, 0, 0, 0>> }

\* one packet, two packets (500 + 8 bytes), three packets (500 + 500 + 16)
NetLens == {1, max_payload, 2 * max_payload}

Keys == {<<a, from_bytes_little(t)>> : a \in Addrs, t \in NetTags}

RTIdle == [pc |-> "idle", data |-> <<>>, tag |-> <<>>, packets |-> <<>>,
           pending |-> {}, order |-> <<>>, gets |-> 0, round |-> 0,
           prevn |-> 0]

NetIdle ==
    /\ sent = <<>>
    /\ net = EmptyDict
    /\ dups = 0
    /\ arrived = {}
    /\ fresh = [k \in Keys |-> {}]
    /\ succ = [k \in Keys |-> 0]

\* no send call and no constructor call is under study
SideIdle ==
    /\ snd = SndIdle
    /\ ctor = CtorIdle

\* no function call, no consensus job and no runner request is under study
FnIdle == [pc |-> "idle"]

ConsIdle == [pc |-> "idle"]

RnrIdle == [pc |-> "idle"]

ExtraIdle ==
    /\ fn = FnIdle
    /\ cons = ConsIdle
    /\ rnr = RnrIdle

----------------------------------------------------------------------------
(* SpecRT: one message is fragmented, its packets are fed to receive on a  *)
(* fresh transport (as tests/test_communicator.py does), then read twice.  *)

RTAddr == "test"

RTInit ==
    /\ tmp_data = EmptyDict
    /\ data_store = EmptyDict
    /\ last = NoLast
    /\ NetIdle
    /\ cbk = NoCallback
    /\ SideIdle
    /\ ExtraIdle
    /\ life = LifeNew("UDP")
    /\ \E len \in RTLens, seed \in 1..MaxSeed, tag \in RTTags :
          rt = [pc |-> "start", data |-> MkData(len, seed), tag |-> tag,
                packets |-> <<>>, pending |-> {}, order |-> <<>>, gets |-> 0,
                round |-> 1, prevn |-> 0]

\* packets = comm1.create_packets(l, tag)
RTCreate ==
    /\ rt.pc = "start"
    /\ LET ps == create_packets(rt.data, rt.tag)
       IN  rt' = [rt EXCEPT !.pc = "feed", !.packets = ps,
                            !.pending = 1..Len(ps)]
    /\ last' = [NoLast EXCEPT !.op = "create"]
    /\ UNCHANGED <<tmp_data, data_store, cbk>>
    /\ UNCHANGED netvars
    /\ UNCHANGED extravars
    /\ UNCHANGED sidevars

\* comm1.receive(packet, 'test'), for the packets in emitted order or, for
\* short messages, in any order
RTFeed ==
    /\ rt.pc = "feed"
    /\ Len(rt.tag) = TAG_SIZE
    /\ \E i \in rt.pending :
          /\ \/ Len(rt.packets) <= MaxPermPkts
             \/ \A j \in rt.pending : i <= j
          /\ LET r == receive(tmp_data, data_store, cbk, rt.packets[i],
                              RTAddr)
             IN  /\ ~r.raised
                 /\ tmp_data' = r.tmp
                 /\ data_store' = r.store
                 /\ cbk' = r.cb
          /\ rt' = [rt EXCEPT !.pending = @ \ {i},
                              !.order = Append(@, i),
                              !.pc = IF rt.pending = {i} THEN "fed" ELSE "feed"]
          /\ last' = [NoLast EXCEPT !.op = "recv", !.addr = RTAddr]
    /\ UNCHANGED netvars
    /\ UNCHANGED extravars
    /\ UNCHANGED sidevars

\* r = comm1.get('test', tag)
RTGet ==
    /\ rt.pc = "fed"
    /\ rt.gets < 2
    /\ LET g == get(data_store, RTAddr, rt.tag)
       IN  /\ data_store' = g.store
           /\ last' = [NoLast EXCEPT !.op = "get", !.addr = RTAddr,
                                      !.tag = rt.tag, !.val = g.ret]
    /\ rt' = [rt EXCEPT !.gets = @ + 1]
    /\ UNCHANGED <<tmp_data, cbk>>
    /\ UNCHANGED netvars
    /\ UNCHANGED extravars
    /\ UNCHANGED sidevars

RTNext == RTCreate \/ RTFeed \/ RTGet

SpecRT == RTInit /\ [][RTNext]_vars

----------------------------------------------------------------------------
(* SpecSeq: messages of varying length are sent one after the other from   *)
(* the same address with the same tag; the packets of each are fed to      *)
(* receive and get is called before the next message is fragmented (as in  *)
(* test_same_tag_send).  A callback may be registered along the way.       *)

\* no packet, one packet (twice), two packets, three packets
SeqLens == {0, 1, max_payload, 2 * max_payload}

SeqInit ==
    /\ tmp_data = EmptyDict
    /\ data_store = EmptyDict
    /\ last = NoLast
    /\ NetIdle
    /\ cbk = NoCallback
    /\ SideIdle
    /\ ExtraIdle
    /\ life = LifeNew("UDP")
    /\ \E len \in SeqLens :
          rt = [pc |-> "start", data |-> MkData(len, 1),
                tag |-> <<116, 101, 115, 116>>,
                packets |-> <<>>, pending |-> {}, order |-> <<>>, gets |-> 0,
                round |-> 1, prevn |-> 0]

\* the next iteration of the loop: another message under the same tag
SeqNextMsg ==
    /\ rt.pc = "fed"
    /\ rt.gets >= 1
    /\ rt.round < MaxRounds
    /\ \E len \in SeqLens :
          rt' = [pc |-> "start", data |-> MkData(len, rt.round + 1),
                 tag |-> rt.tag, packets |-> <<>>, pending |-> {},
                 order |-> <<>>, gets |-> 0, round |-> rt.round + 1,
                 prevn |-> Len(rt.packets)]
    /\ UNCHANGED <<tmp_data, data_store, last, cbk>>
    /\ UNCHANGED netvars
    /\ UNCHANGED extravars
    /\ UNCHANGED sidevars

\* comm1.register_recv_callback(cbk), cbk a function of three arguments
SeqRegister ==
    /\ cbk.fn = None
    /\ rt.pc \in {"start", "feed"}
    /\ cbk' = [cbk EXCEPT !.fn = Some("cbk")]
    /\ UNCHANGED <<tmp_data, data_store, last, rt>>
    /\ UNCHANGED netvars
    /\ UNCHANGED extravars
    /\ UNCHANGED sidevars

SeqNext == RTCreate \/ RTFeed \/ RTGet \/ SeqNextMsg \/ SeqRegister

SpecSeq == SeqInit /\ [][SeqNext]_vars

----------------------------------------------------------------------------
(* SpecSend: one call of send on an open transport, the socket answering   *)
(* each sendto with a byte count, a negative count or an OSError (the      *)
(* mocked socket of test_mocked_send and test_big_mock_send).              *)

\* one packet, and k + 1 packets for k = 1..MaxK
SendLens == {1} \cup {k * max_payload : k \in 1..MaxK}

SndInit ==
    /\ tmp_data = EmptyDict
    /\ data_store = EmptyDict
    /\ last = NoLast
    /\ rt = RTIdle
    /\ NetIdle
    /\ cbk = NoCallback
    /\ ctor = CtorIdle
    /\ ExtraIdle
    /\ life = LifeNew("UDP")
    /\ \E len \in SendLens :
          snd = [SndIdle EXCEPT !.pc = "start", !.data = MkData(len, 1),
                                !.tag = <<116, 97, 103, 49>>]

\* comm1.send('127.0.0.1', data, tag)
SndSend ==
    /\ snd.pc = "start"
    /\ LET packets == create_packets(snd.data, snd.tag)
       IN  \E outs \in [1..Len(packets) -> Outcomes] :
              LET r == send(life.is_open, packets, outs)
              IN  snd' = [snd EXCEPT !.pc = "done", !.n = Len(packets),
                                     !.outs = outs, !.exc = r.exc,
                                     !.ret = r.ret, !.attempts = r.attempts]
    /\ UNCHANGED <<tmp_data, data_store, last, rt, cbk, life, ctor>>
    /\ UNCHANGED netvars
    /\ UNCHANGED extravars

SndNext == SndSend

SpecSend == SndInit /\ [][SndNext]_vars

----------------------------------------------------------------------------
(* Spec: peers send messages to this node over a datagram network that may *)
(* reorder, duplicate and lose datagrams (a lost datagram is one that is   *)
(* never delivered); the receive loop feeds each arriving datagram to      *)
(* receive, and the consumer calls get.  The transport is open and listen  *)
(* has been called on it.                                                  *)

\* the bytes of the datagram <<send index, packet index>>
Pkt(id) == sent[id[1]].packets[id[2]]

\* the header fields and the payload as receive reads them (lines 621-624)
HdrSeqTotal(p) == unpack_H(Slice(p, 0, 2))

HdrSeqNum(p) == unpack_H(Slice(p, 2, 4))

HdrTag(p) == from_bytes_little(Slice(p, 4, 8))

Payload(p) == SliceFrom(p, 8)

\* _sock.recvfrom(1024): a datagram longer than the buffer is cut to 1024 bytes
recvfrom(p) == Slice(p, 0, 1024)

\* the message-store key the datagram is filed under
PktKey(id) == <<sent[id[1]].addr, HdrTag(Pkt(id))>>

\* the sends issued for a key
SendsOf(k) ==
    {sid \in 1..Len(sent) :
        sent[sid].addr = k[1] /\ from_bytes_little(sent[sid].tag) = k[2]}

\* the datagrams of one send
IdsOf(sid) == {<<sid, j>> : j \in 1..Len(sent[sid].packets)}

HasEntry(tmp, k) == k[1] \in DOMAIN tmp /\ k[2] \in DOMAIN tmp[k[1]]

Init ==
    /\ tmp_data = EmptyDict
    /\ data_store = EmptyDict
    /\ last = NoLast
    /\ rt = RTIdle
    /\ NetIdle
    /\ cbk = NoCallback
    /\ SideIdle
    /\ ExtraIdle
    /\ life = LifeListening

\* a peer at addr calls send(this node, data, tag): create_packets, then one
\* sendto per packet.  The k-th send of a run carries the k-th payload
\* content, so that two sends never carry the same bytes.
Send ==
    /\ Len(sent) < MaxSends
    /\ \E a \in Addrs, t \in NetTags, len \in NetLens :
          LET sid  == Len(sent) + 1
              data == MkData(len, sid)
              ps   == create_packets(data, t)
          IN  /\ sent' = Append(sent, [addr |-> a, tag |-> t, data |-> data,
                                       packets |-> ps])
              /\ net' = [i \in {<<sid, j>> : j \in 1..Len(ps)} |-> 1] @@ net
    /\ UNCHANGED <<tmp_data, data_store, last, rt, dups, arrived, fresh, succ>>
    /\ UNCHANGED <<cbk, snd, life, ctor>>
    /\ UNCHANGED extravars

\* __run_listen__: data, addr = _sock.recvfrom(1024); self.receive(data, addr[0])
Deliver ==
    \E id \in DOMAIN net :
        /\ life.listen_thread = "running"
        /\ net[id] > 0
        /\ LET a == sent[id[1]].addr
               p == recvfrom(Pkt(id))
               k == <<a, HdrTag(p)>>
               r == receive(tmp_data, data_store, cbk, p, a)
               mismatch == /\ HasEntry(tmp_data, k)
                           /\ tmp_data[k[1]][k[2]].seq_total
                                  # Some(HdrSeqTotal(p))
           IN  /\ tmp_data' = r.tmp
               /\ data_store' = r.store
               /\ cbk' = r.cb
               /\ arrived' = arrived \cup {id}
               /\ fresh' = [fresh EXCEPT
                               ![k] = IF mismatch THEN {id} ELSE @ \cup {id}]
        /\ net' = [net EXCEPT ![id] = @ - 1]
        /\ UNCHANGED <<last, rt, sent, dups, succ>>
        /\ UNCHANGED sidevars
        /\ UNCHANGED extravars

\* the network delivers a datagram twice
Duplicate ==
    /\ dups < MaxDup
    /\ \E id \in DOMAIN net :
          /\ net[id] > 0
          /\ net' = [net EXCEPT ![id] = @ + 1]
    /\ dups' = dups + 1
    /\ UNCHANGED <<tmp_data, data_store, last, rt, sent, arrived, fresh, succ>>
    /\ UNCHANGED <<cbk, snd, life, ctor>>
    /\ UNCHANGED extravars

\* the consumer calls get(addr, tag)
Get ==
    \E a \in Addrs, t \in NetTags :
        LET g == get(data_store, a, t)
            k == <<a, from_bytes_little(t)>>
        IN  /\ data_store' = g.store
            /\ last' = [NoLast EXCEPT !.op = "get", !.addr = a, !.tag = t,
                                       !.val = g.ret]
            /\ succ' = IF g.ret # None THEN [succ EXCEPT ![k] = @ + 1]
                       ELSE succ
            /\ arrived' = IF g.ret # None
                          THEN {id \in arrived : PktKey(id) # k}
                          ELSE arrived
            /\ UNCHANGED <<tmp_data, rt, sent, net, dups, fresh>>
            /\ UNCHANGED <<cbk, snd, life, ctor>>
            /\ UNCHANGED extravars

Next == Send \/ Deliver \/ Duplicate \/ Get

Spec == Init /\ [][Next]_vars

----------------------------------------------------------------------------
(* SpecLife: the public calls listen, stop_listen, close, get and send in  *)
(* any order on a UDP or a TCP transport, while the background threads run *)
(* (the UDP receive loop; the accept loop and the connection readers) and  *)
(* datagrams, well-formed or not, connections and stream data arrive.      *)

\* the peers that open stream connections to this node
Peers == {"p1"}

LifeTag == <<1, 0, 0, 0>>

\* the datagrams that reach the UDP socket: empty, 3, 4 and 7 bytes, and
\* the single packet of a one-byte message
LifeGrams ==
    { <<>>, <<0, 0, 0>>, <<0, 0, 0, 0>>, <<0, 0, 0, 0, 1, 0, 0>>,
      create_packets(<<7>>, LifeTag)[1] }

\* what connection.recv(2048) returns: b'' at end of stream, or tag + data
StreamData == { <<>>, LifeTag \o <<9>> }

\* the observer fields after a public call made in state pre
Called(pre, post, name, exc) ==
    [post EXCEPT !.call = name, !.exc = exc, !.calls = pre.calls + 1,
                 !.late = IF pre.is_open THEN pre.late ELSE pre.late + 1]

Without(f, k) == [x \in DOMAIN f \ {k} |-> f[x]]

LifeInit ==
    /\ tmp_data = EmptyDict
    /\ data_store = EmptyDict
    /\ last = NoLast
    /\ rt = RTIdle
    /\ NetIdle
    /\ cbk = NoCallback
    /\ SideIdle
    /\ ExtraIdle
    /\ \E p \in {"UDP", "TCP"} : life = LifeNew(p)

LListen ==
    /\ life.calls < MaxCalls
    /\ LET r == listen(life)
       IN  life' = Called(life, r.st, "listen", r.exc)
    /\ UNCHANGED <<tmp_data, data_store, last, rt, cbk, snd, ctor>>
    /\ UNCHANGED netvars
    /\ UNCHANGED extravars

LStopListen ==
    /\ life.calls < MaxCalls
    /\ life' = Called(life, stop_listen(life), "stop_listen", "none")
    /\ UNCHANGED <<tmp_data, data_store, last, rt, cbk, snd, ctor>>
    /\ UNCHANGED netvars
    /\ UNCHANGED extravars

LClose ==
    /\ life.calls < MaxCalls
    /\ LET r == close(life)
       IN  life' = Called(life, r.st, "close", r.exc)
    /\ UNCHANGED <<tmp_data, data_store, last, rt, cbk, snd, ctor>>
    /\ UNCHANGED netvars
    /\ UNCHANGED extravars

LGet ==
    /\ life.calls < MaxCalls
    /\ \E a \in Addrs \cup Peers :
          LET g == get(data_store, a, LifeTag)
          IN  /\ data_store' = g.store
              /\ last' = [NoLast EXCEPT !.op = "get", !.addr = a,
                                         !.tag = LifeTag, !.val = g.ret]
    /\ life' = Called(life, life, "get", "none")
    /\ UNCHANGED <<tmp_data, rt, cbk, snd, ctor>>
    /\ UNCHANGED netvars
    /\ UNCHANGED extravars

\* send of a one-byte message, the socket accepting the datagram
LSend ==
    /\ life.calls < MaxCalls
    /\ LET r == send(life.is_open, create_packets(<<7>>, LifeTag), <<"ok">>)
       IN  life' = Called(life, life, "send", r.exc)
    /\ UNCHANGED <<tmp_data, data_store, last, rt, cbk, snd, ctor>>
    /\ UNCHANGED netvars
    /\ UNCHANGED extravars

\* one iteration of the loop of __run_listen__ in which recvfrom returns a
\* datagram: receive(data, addr[0]); an exception other than BlockingIOError
\* leaves the loop and ends the thread before line 366
LDeliver ==
    /\ life.protocol = "UDP"
    /\ life.listen_thread = "running"
    /\ life.rxn < MaxRx
    /\ \E a \in Addrs, d \in LifeGrams :
          LET r == receive(tmp_data, data_store, cbk, recvfrom(d), a)
          IN  /\ tmp_data' = r.tmp
              /\ data_store' = r.store
              /\ cbk' = r.cb
              /\ life' = [life EXCEPT
                             !.rx = Some(d), !.rxn = @ + 1,
                             !.listen_thread = IF r.raised THEN "dead" ELSE @]
    /\ UNCHANGED <<last, rt, snd, ctor>>
    /\ UNCHANGED netvars
    /\ UNCHANGED extravars

\* one iteration of the loop of __run_tcp__ in which accept returns a
\* connection: it is entered in self.connections and a reader is started
LAcceptOk ==
    /\ life.protocol = "TCP"
    /\ life.listen_thread = "running"
    /\ \E a \in Peers \ DOMAIN life.readers :
          life' = [life EXCEPT !.connections = @ \cup {a},
                               !.readers = Put(@, a, "check")]
    /\ UNCHANGED <<tmp_data, data_store, last, rt, cbk, snd, ctor>>
    /\ UNCHANGED netvars
    /\ UNCHANGED extravars

\* accept on the non-blocking listening socket with no connection pending
\* raises BlockingIOError, which __run_tcp__ does not catch
LAcceptFail ==
    /\ life.protocol = "TCP"
    /\ life.listen_thread = "running"
    /\ life' = [life EXCEPT !.listen_thread = "dead"]
    /\ UNCHANGED <<tmp_data, data_store, last, rt, cbk, snd, ctor>>
    /\ UNCHANGED netvars
    /\ UNCHANGED extravars

\* __run_connect__ at "while self.is_listening": into recv, or out of the
\* loop to close the connection and pop it from self.connections
LReaderCheck ==
    /\ \E a \in DOMAIN life.readers :
          /\ life.readers[a] = "check"
          /\ life' = IF life.is_listening
                     THEN [life EXCEPT !.readers = Put(@, a, "recv")]
                     ELSE [life EXCEPT !.readers = Without(@, a),
                                       !.connections = @ \ {a}]
    /\ UNCHANGED <<tmp_data, data_store, last, rt, cbk, snd, ctor>>
    /\ UNCHANGED netvars
    /\ UNCHANGED extravars

\* connection.recv(2048) returns: self.receive_tcp(data, addr)
LReaderRecv ==
    /\ life.rxn < MaxRx
    /\ \E a \in DOMAIN life.readers, d \in StreamData :
          /\ life.readers[a] = "recv"
          /\ data_store' = receive_tcp(data_store, d, a)
          /\ life' = [life EXCEPT !.readers = Put(@, a, "check"),
                                  !.rx = Some(d), !.rxn = @ + 1]
    /\ UNCHANGED <<tmp_data, last, rt, cbk, snd, ctor>>
    /\ UNCHANGED netvars
    /\ UNCHANGED extravars

\* connection.recv raises: break, close the connection and pop it
LReaderError ==
    /\ \E a \in DOMAIN life.readers :
          /\ life.readers[a] = "recv"
          /\ life' = [life EXCEPT !.readers = Without(@, a),
                                  !.connections = @ \ {a}]
    /\ UNCHANGED <<tmp_data, data_store, last, rt, cbk, snd, ctor>>
    /\ UNCHANGED netvars
    /\ UNCHANGED extravars

LifeNext ==
    \/ LListen \/ LStopListen \/ LClose \/ LGet \/ LSend
    \/ LDeliver
    \/ LAcceptOk \/ LAcceptFail \/ LReaderCheck \/ LReaderRecv \/ LReaderError

SpecLife == LifeInit /\ [][LifeNext]_vars

----------------------------------------------------------------------------
(* SpecCtor: one call of the constructor (as in test_init) *)

CtorProtocols == {"udp", "UDP", "tcp", "uasd"}

\* ports either side of the two ends of the valid range, and two in it
CtorPorts == {-1, 0, 9887, 9888, 65535, 65536}

CtorInit ==
    /\ tmp_data = EmptyDict
    /\ data_store = EmptyDict
    /\ last = NoLast
    /\ rt = RTIdle
    /\ NetIdle
    /\ cbk = NoCallback
    /\ snd = SndIdle
    /\ ExtraIdle
    /\ life = LifeNew("UDP")
    /\ \E protocol \in CtorProtocols, listen_port \in CtorPorts,
          send_port \in {None} \cup {Some(p) : p \in CtorPorts} :
          ctor = [CtorIdle EXCEPT !.pc = "args", !.protocol = protocol,
                                  !.listen_port = listen_port,
                                  !.send_port = send_port]

\* comm1 = Communicator(protocol, listen_port, send_port)
CtorConstruct ==
    /\ ctor.pc = "args"
    /\ ctor' = [ctor EXCEPT
                   !.pc = "done",
                   !.obj = Communicator(ctor.protocol, ctor.listen_port,
                                        ctor.send_port)]
    /\ UNCHANGED <<tmp_data, data_store, last, rt, cbk, snd, life>>
    /\ UNCHANGED netvars
    /\ UNCHANGED extravars

CtorNext == CtorConstruct

SpecCtor == CtorInit /\ [][CtorNext]_vars

----------------------------------------------------------------------------
(* consensus/iterative.py: build_tag *)

\* int.to_bytes(length, byteorder='little'): the bytes of num, lowest first,
\* or OverflowError when num does not fit into length bytes (the numbers of
\* this model stay below 2^31, so four bytes always fit)
to_bytes(num, length) ==
    IF length <= 3 /\ num >= 256 ^ length
    THEN [exc |-> "OverflowError", val |-> <<>>]
    ELSE [exc |-> "none",
          val |-> [k \in 1..length |-> (num \div (256 ^ (k - 1))) % 256]]

\* math.ceil(math.log(num, 2) / 8) for num > 0: the least b with
\* num <= 256^b (math.log(256**b, 2) is exactly 8*b for b in 0..3)
log_bytes(num) ==
    IF num <= 1 THEN 0
    ELSE IF num <= 256 THEN 1
    ELSE IF num <= 256 ^ 2 THEN 2
    ELSE IF num <= 256 ^ 3 THEN 3
    ELSE 4

\* build_tag gone wrong: the iteration number is left out of the tag
build_tag_run_only(tag_id, num) ==
    [exc |-> "none", val |-> to_bytes(tag_id % 256, 1).val \o <<0, 0, 0>>]

\* build_tag(tag_id, num): exc is "OverflowError" when num.to_bytes raises,
\* else val is the tag
build_tag(tag_id, num) ==
    LET tag == to_bytes(tag_id % 256, 1).val
        bts == IF num > 0 THEN log_bytes(num) ELSE 3
        bts2 == IF bts > 3 THEN bts ELSE 3
        numb == to_bytes(num, bts2)
    IN  IF numb.exc # "none" THEN [exc |-> numb.exc, val |-> <<>>]
        ELSE [exc |-> "none", val |-> tag \o Slice(numb.val, 0, 3)]

----------------------------------------------------------------------------
(* SpecTag: one call of build_tag (as in test_build_tag) *)

TagIds == {0, 1, 255, 256, 257, 511}

TagNums == {0, 1, 255, 256, 333, 65535, 65536,
            256 ^ 3 - 1, 256 ^ 3, 256 ^ 3 + 1, 256 ^ 3 + 2}

TagInit ==
    /\ tmp_data = EmptyDict
    /\ data_store = EmptyDict
    /\ last = NoLast
    /\ rt = RTIdle
    /\ NetIdle
    /\ cbk = NoCallback
    /\ life = LifeNew("UDP")
    /\ SideIdle
    /\ cons = ConsIdle
    /\ rnr = RnrIdle
    /\ \E r \in TagIds, n \in TagNums :
           fn = [pc |-> "build_tag", tag_id |-> r, num |-> n, out |-> None]

TagBuild ==
    /\ fn.pc = "build_tag"
    /\ fn.out = None
    /\ fn' = [fn EXCEPT !.out = Some(build_tag(fn.tag_id, fn.num))]
    /\ UNCHANGED <<tmp_data, data_store, last, rt, cbk, cons, rnr>>
    /\ UNCHANGED netvars
    /\ UNCHANGED sidevars

TagNext == TagBuild

SpecTag == TagInit /\ [][TagNext]_vars

----------------------------------------------------------------------------
(* consensus/iterative.py: get_weights.  A weight is the fraction num/den. *)

Max(a, b) == IF a >= b THEN a ELSE b

ZeroWeight == [num |-> 0, den |-> 1]

\* the answers of requests.get for one neighbor: status 200 with a degree,
\* status 200 with a text int() rejects, another status, or an exception
\* (timeout, connection error)
LookupKinds == {"ok", "badtext", "status", "raise"}

\* weight_of gone wrong: the remote degree is ignored
weight_of_own_degree(my_deg, res) ==
    IF res.kind = "ok"
    THEN [num |-> 1, den |-> my_deg + 1]
    ELSE ZeroWeight

\* the body of the loop for one neighbor: the weight it is given
weight_of(my_deg, res) ==
    IF res.kind = "ok"
    THEN [num |-> 1, den |-> Max(res.deg, my_deg) + 1]
    ELSE ZeroWeight

RECURSIVE weights_loop(_, _, _, _)
\* for neigh in neighbors: weights[neigh] = ...
weights_loop(todo, my_deg, resp, weights) ==
    IF Len(todo) = 0 THEN weights
    ELSE weights_loop(Tail(todo), my_deg, resp,
                      Put(weights, Head(todo),
                          weight_of(my_deg, resp[Head(todo)])))

\* get_weights(neighbors): neighbors is None or Some(list); resp is what
\* each neighbor's degree lookup answers
get_weights(neighbors, resp) ==
    IF neighbors = None THEN EmptyDict
    ELSE weights_loop(neighbors[1], Len(neighbors[1]), resp, EmptyDict)

----------------------------------------------------------------------------
(* SpecWeights: one call of get_weights (as in test_weights) *)

MaxDeg == 3

Neighs == <<"192.168.2.180", "192.168.2.181", "192.168.2.182">>

Lookups ==
    [kind : {"ok"}, deg : 1..MaxDeg]
        \cup [kind : LookupKinds \ {"ok"}, deg : {0}]

WeightArgs ==
    {None} \cup {Some(SubSeq(Neighs, 1, k)) : k \in 0..Len(Neighs)}

NeighSet(neighbors) ==
    IF neighbors = None THEN {}
    ELSE {neighbors[1][k] : k \in 1..Len(neighbors[1])}

WeightsInit ==
    /\ tmp_data = EmptyDict
    /\ data_store = EmptyDict
    /\ last = NoLast
    /\ rt = RTIdle
    /\ NetIdle
    /\ cbk = NoCallback
    /\ life = LifeNew("UDP")
    /\ SideIdle
    /\ cons = ConsIdle
    /\ rnr = RnrIdle
    /\ \E nb \in WeightArgs :
         \E resp \in [NeighSet(nb) -> Lookups] :
           fn = [pc |-> "get_weights", neighbors |-> nb, resp |-> resp,
                 out |-> None]

WeightsCall ==
    /\ fn.pc = "get_weights"
    /\ fn.out = None
    /\ fn' = [fn EXCEPT !.out = Some(get_weights(fn.neighbors, fn.resp))]
    /\ UNCHANGED <<tmp_data, data_store, last, rt, cbk, cons, rnr>>
    /\ UNCHANGED netvars
    /\ UNCHANGED sidevars

WeightsNext == WeightsCall

SpecWeights == WeightsInit /\ [][WeightsNext]_vars

----------------------------------------------------------------------------
(* consensus/iterative.py: run.  Estimates and weights are fractions       *)
(* num/den in lowest terms (the weights are those of get_weights).         *)

Abs(x) == IF x < 0 THEN 0 - x ELSE x

GCD[a \in Nat, b \in Nat] == IF b = 0 THEN a ELSE GCD[b, a % b]

Fractions == [num : Int, den : Nat]

\* the fraction n/d, d > 0, in lowest terms
Frac[n \in Int, d \in Nat] ==
    [num |-> n \div GCD[Abs(n), d], den |-> d \div GCD[Abs(n), d]]

FAdd[a \in Fractions, b \in Fractions] ==
    Frac[a.num * b.den + b.num * a.den, a.den * b.den]

FSub[a \in Fractions, b \in Fractions] ==
    Frac[a.num * b.den - b.num * a.den, a.den * b.den]

FMul[a \in Fractions, b \in Fractions] ==
    Frac[a.num * b.num, a.den * b.den]

\* nettools.matrix_to_bytes: the serialised value (sign, numerator and
\* denominator, two bytes each, lowest first)
matrix_to_bytes(v) ==
    <<IF v.num < 0 THEN 1 ELSE 0,
      Abs(v.num) % 256, Abs(v.num) \div 256, v.den % 256, v.den \div 256>>

\* nettools.matrix_from_bytes
matrix_from_bytes(b) ==
    LET mag == from_bytes_little(Slice(b, 1, 3))
    IN  [num |-> IF b[1] = 1 THEN 0 - mag ELSE mag,
         den |-> from_bytes_little(Slice(b, 3, 5))]

\* accumulate gone wrong: a weight of 0 counts as 1
accumulate_zero_as_one(tempsum, weight, t, old_data) ==
    FAdd[tempsum,
         FMul[IF weight.num = 0 THEN Frac[1, 1] ELSE weight,
              FSub[t, old_data]]]

\* accumulate gone wrong: the weight is left out
accumulate_unweighted(tempsum, weight, t, old_data) ==
    FAdd[tempsum, FSub[t, old_data]]

\* lines 117-120 and 139-142: diff = t - old_data;
\* tempsum += neighbors[j] * diff
accumulate(tempsum, weight, t, old_data) ==
    FAdd[tempsum, FMul[weight, FSub[t, old_data]]]

\* next_estimate gone wrong: the previous estimate is left out
next_estimate_tempsum(old_data, tempsum) == tempsum

\* line 149: new_data = old_data + tempsum
next_estimate(old_data, tempsum) == FAdd[old_data, tempsum]

\* timed_out gone wrong: the budget is never checked
timed_out_never(expired) == FALSE

\* line 132: time.time() - start > 15
timed_out(expired) == expired

\* timeout_result gone wrong: the estimate so far is returned
timeout_result_estimate(new_data) == Some(new_data)

\* line 134: return None
timeout_result(new_data) == None

\* neighbor j of this iteration is done (the end of the body of the loop of
\* line 114): on to the next neighbor, or line 149 and the next iteration,
\* or line 151 after the last one
neighbor_done(nd, n_neigh, tc) ==
    IF nd.j < n_neigh
    THEN [nd EXCEPT !.j = nd.j + 1, !.pc = "neighbor"]
    ELSE LET new_data == next_estimate(nd.old_data, nd.tempsum)
         IN  IF nd.i + 1 < tc
             THEN [nd EXCEPT !.new_data = new_data, !.i = nd.i + 1,
                             !.pc = "iterate"]
             ELSE [nd EXCEPT !.new_data = new_data, !.i = nd.i + 1,
                             !.pc = "done", !.ret = Some(new_data)]

\* the state of run before the loop of line 101
run_start(orig_data, neigh_list) ==
    [pc |-> "iterate", i |-> 0, j |-> 1,
     old_data |-> orig_data, new_data |-> orig_data,
     tempsum |-> Frac[0, 1],
     data |-> [m \in {neigh_list[k] : k \in 1..Len(neigh_list)} |-> None],
     missing_data |-> [m \in {neigh_list[k] : k \in 1..Len(neigh_list)} |-> <<>>],
     expired |-> FALSE, ret |-> None,
     terms |-> <<>>, hist |-> <<>>, cause |-> "none"]

RECURSIVE cons_receive(_, _, _, _)
\* receive(tag, neighbors, communicator), lines 177-198:
\* data[n] = communicator.get(n, tag) for every neighbor
cons_receive(todo, store, tag, data) ==
    IF Len(todo) = 0 THEN [data |-> data, store |-> store]
    ELSE LET g == get(store, Head(todo), tag)
         IN  cons_receive(Tail(todo), g.store, tag,
                          Put(data, Head(todo), g.ret))

\* transmit(data, tag, neighbors, communicator), lines 154-174: one message
\* to every neighbor
transmit(src, data, tag, neigh_list) ==
    {[src |-> src, dst |-> neigh_list[k], tag |-> tag, data |-> data] :
        k \in 1..Len(neigh_list)}

----------------------------------------------------------------------------
(* SpecCons: every node of a small connected graph runs the consensus job  *)
(* (runner.kickoff: get_weights, then run) over a network that delays,     *)
(* reorders and loses messages; the clock of a node that waits for missing *)
(* data may pass the 15 seconds of line 132.                               *)

MaxTc == 2

MaxLost == 1

\* iterations on the graphs of three nodes
MaxTc3 == 1

Pair == ("n1" :> <<"n2">>) @@ ("n2" :> <<"n1">>)

Line == ("n1" :> <<"n2">>) @@ ("n2" :> <<"n1", "n3">>) @@ ("n3" :> <<"n2">>)

\* the fully connected graph of three nodes
Triangle ==
    ("n1" :> <<"n2", "n3">>) @@ ("n2" :> <<"n1", "n3">>)
        @@ ("n3" :> <<"n1", "n2">>)

ConsGraphs == {Pair, Line, Triangle}

\* the values the nodes start with: all the same, or all different
SameData == [n \in {"n1", "n2", "n3"} |-> Frac[2, 1]]

MixedData == ("n1" :> Frac[1, 1]) @@ ("n2" :> Frac[2, 1]) @@ ("n3" :> Frac[4, 1])

\* kickoff: the weights of node n, every degree lookup answered
ConsWeights(g, n) ==
    get_weights(Some(g[n]),
                [m \in NeighSet(Some(g[n])) |->
                    [kind |-> "ok", deg |-> Len(g[m])]])

ConsTag(i) == build_tag(cons.tag_id, i).val

ConsInit ==
    /\ tmp_data = EmptyDict
    /\ data_store = EmptyDict
    /\ last = NoLast
    /\ rt = RTIdle
    /\ NetIdle
    /\ cbk = NoCallback
    /\ life = LifeNew("UDP")
    /\ SideIdle
    /\ fn = FnIdle
    /\ rnr = RnrIdle
    /\ \E g \in ConsGraphs, tc \in 1..MaxTc, orig \in {SameData, MixedData} :
         /\ g # Pair => tc <= MaxTc3
         /\ g = Triangle => orig = SameData
         /\ cons = [pc |-> "run", nbrs |-> g, tc |-> tc, tag_id |-> 1,
                 orig |-> [n \in DOMAIN g |-> orig[n]],
                 weights |-> [n \in DOMAIN g |-> ConsWeights(g, n)],
                 node |-> [n \in DOMAIN g |-> run_start(orig[n], g[n])],
                 store |-> [n \in DOMAIN g |-> EmptyDict],
                 net |-> {}, lost |-> {}]

ConsFrame ==
    /\ UNCHANGED <<tmp_data, data_store, last, rt, cbk, fn, rnr>>
    /\ UNCHANGED netvars
    /\ UNCHANGED sidevars

\* lines 101-112 at node n: the estimate is sent to every neighbor and what
\* has arrived under this iteration's tag is fetched
ConsIterate(n) ==
    /\ cons.pc = "run"
    /\ n \in DOMAIN cons.nbrs
    /\ cons.node[n].pc = "iterate"
    /\ LET nd == cons.node[n]
           tag == ConsTag(nd.i)
           b_data == matrix_to_bytes(nd.new_data)
           r == cons_receive(cons.nbrs[n], cons.store[n], tag, nd.data)
       IN  cons' = [cons EXCEPT
                !.net = cons.net \cup transmit(n, b_data, tag, cons.nbrs[n]),
                !.store[n] = r.store,
                !.node[n] = [nd EXCEPT !.old_data = nd.new_data,
                                       !.tempsum = Frac[0, 1],
                                       !.data = r.data,
                                       !.j = 1,
                                       !.pc = "neighbor",
                                       !.hist = Append(nd.hist, nd.new_data)]]
    /\ ConsFrame

\* lines 114-131 at node n for neighbor j: its data is applied, or its tag
\* is queued and the clock of the retry loop is started
ConsNeighbor(n) ==
    /\ cons.pc = "run"
    /\ n \in DOMAIN cons.nbrs
    /\ cons.node[n].pc = "neighbor"
    /\ LET nd == cons.node[n]
           m == cons.nbrs[n][nd.j]
           tag == ConsTag(nd.i)
           t == matrix_from_bytes(nd.data[m][1])
           nd1 == [nd EXCEPT
                    !.tempsum = accumulate(nd.tempsum, cons.weights[n][m], t,
                                           nd.old_data),
                    !.terms = Append(nd.terms, <<nd.i, m, "first">>)]
           nd2 == IF nd.data[m] # None
                  THEN IF Len(nd.missing_data[m]) = 0
                       THEN neighbor_done(nd1, Len(cons.nbrs[n]), cons.tc)
                       ELSE [nd1 EXCEPT !.expired = FALSE, !.pc = "wait"]
                  ELSE [nd EXCEPT !.missing_data[m] =
                                      Append(nd.missing_data[m], tag),
                                  !.expired = FALSE,
                                  !.pc = "wait"]
       IN  cons' = [cons EXCEPT !.node[n] = nd2]
    /\ ConsFrame

\* ConsRetry gone wrong: a payload that is still missing is not waited for,
\* its tag stays in the queue and the loop goes on to the next neighbor
ConsRetry_no_wait(n) ==
    /\ cons.pc = "run"
    /\ n \in DOMAIN cons.nbrs
    /\ cons.node[n].pc = "wait"
    /\ LET nd == cons.node[n]
           m == cons.nbrs[n][nd.j]
           tag1 == Head(nd.missing_data[m])
           rest == Tail(nd.missing_data[m])
           g == get(cons.store[n], m, tag1)
           t == matrix_from_bytes(g.ret[1])
           nd1 == [nd EXCEPT
                    !.missing_data[m] = rest,
                    !.tempsum = accumulate(nd.tempsum, cons.weights[n][m], t,
                                           nd.old_data),
                    !.terms = Append(nd.terms, <<nd.i, m, "queue">>)]
           nd2 == IF g.ret # None
                  THEN neighbor_done(nd1, Len(cons.nbrs[n]), cons.tc)
                  ELSE neighbor_done(nd, Len(cons.nbrs[n]), cons.tc)
       IN  cons' = [cons EXCEPT !.store[n] = g.store, !.node[n] = nd2]
    /\ ConsFrame

\* lines 131-145 at node n: one pass of the retry loop for neighbor j
ConsRetry(n) ==
    /\ cons.pc = "run"
    /\ n \in DOMAIN cons.nbrs
    /\ cons.node[n].pc = "wait"
    /\ LET nd == cons.node[n]
           m == cons.nbrs[n][nd.j]
           tag1 == Head(nd.missing_data[m])
           rest == Tail(nd.missing_data[m])
           g == get(cons.store[n], m, tag1)
           t == matrix_from_bytes(g.ret[1])
           nd1 == [nd EXCEPT
                    !.missing_data[m] = rest,
                    !.tempsum = accumulate(nd.tempsum, cons.weights[n][m], t,
                                           nd.old_data),
                    !.terms = Append(nd.terms, <<nd.i, m, "queue">>)]
           gave_up == [nd EXCEPT
                        !.pc = "done",
                        !.ret = timeout_result(nd.new_data),
                        !.cause = IF \E msg \in cons.lost :
                                        /\ msg.src = m
                                        /\ msg.dst = n
                                        /\ msg.tag = tag1
                                  THEN "lost" ELSE "pending"]
           nd2 == IF g.ret # None
                  THEN IF Len(rest) = 0
                       THEN neighbor_done(nd1, Len(cons.nbrs[n]), cons.tc)
                       ELSE nd1
                  ELSE [nd EXCEPT !.missing_data[m] = Append(rest, tag1)]
       IN  cons' = IF timed_out(nd.expired)
                   THEN [cons EXCEPT !.node[n] = gave_up]
                   ELSE [cons EXCEPT !.store[n] = g.store, !.node[n] = nd2]
    /\ ConsFrame

\* the clock of node n passes the 15 seconds while it waits
ConsTick(n) ==
    /\ cons.pc = "run"
    /\ n \in DOMAIN cons.nbrs
    /\ cons.node[n].pc = "wait"
    /\ ~cons.node[n].expired
    /\ cons' = [cons EXCEPT !.node[n].expired = TRUE]
    /\ ConsFrame

\* a message arrives: the listener of its destination stores it
\* (communicator.py lines 649-655); kickoff closes the communicator when
\* run has returned (runner.py lines 293-294)
ConsDeliver ==
    /\ cons.pc = "run"
    /\ \E msg \in cons.net :
         /\ cons.node[msg.dst].pc # "done"
         /\ cons' = [cons EXCEPT
                    !.net = cons.net \ {msg},
                    !.store[msg.dst] =
                        store_message(cons.store[msg.dst], msg.src,
                                      from_bytes_little(msg.tag), msg.data)]
    /\ ConsFrame

\* the network drops a message
ConsLose ==
    /\ cons.pc = "run"
    /\ Cardinality(cons.lost) < MaxLost
    /\ \E msg \in cons.net :
         cons' = [cons EXCEPT !.net = cons.net \ {msg},
                              !.lost = cons.lost \cup {msg}]
    /\ ConsFrame

ConsStep(n) == ConsIterate(n) \/ ConsNeighbor(n) \/ ConsRetry(n)

ConsNext ==
    \/ \E n \in {"n1", "n2", "n3"} : ConsIterate(n)
    \/ \E n \in {"n1", "n2", "n3"} : ConsNeighbor(n)
    \/ \E n \in {"n1", "n2", "n3"} : ConsRetry(n)
    \/ \E n \in {"n1", "n2", "n3"} : ConsTick(n)
    \/ ConsDeliver
    \/ ConsLose

SpecCons == ConsInit /\ [][ConsNext]_vars

\* the clock of node n2 advances and its run is scheduled; nothing is
\* assumed of the other nodes and of the network (n2 has one neighbor in
\* Pair and two in Line)
ConsFairInit == ConsInit /\ cons.nbrs # Triangle

SpecConsFair ==
    /\ ConsFairInit
    /\ [][ConsNext]_vars
    /\ WF_vars(ConsStep("n2"))
    /\ WF_vars(ConsTick("n2"))

----------------------------------------------------------------------------
(* SpecRunner: runner.py.  Requests to /start/consensus are served by      *)
(* concurrent handler threads of the web server; each job is a process     *)
(* running kickoff, which clears TASK_RUNNING when it ends.                *)

MaxReq == 3

Requests == 1..MaxReq

RunnerFrame ==
    /\ UNCHANGED <<tmp_data, data_store, last, rt, cbk, fn, cons>>
    /\ UNCHANGED netvars
    /\ UNCHANGED sidevars

\* line 28: TASK_RUNNING = Value('i', 0, lock=True); no request yet
RunnerInit ==
    /\ tmp_data = EmptyDict
    /\ data_store = EmptyDict
    /\ last = NoLast
    /\ rt = RTIdle
    /\ NetIdle
    /\ cbk = NoCallback
    /\ life = LifeNew("UDP")
    /\ SideIdle
    /\ fn = FnIdle
    /\ cons = ConsIdle
    /\ rnr = [pc |-> "serve", TASK_RUNNING |-> 0,
              handler |-> [h \in Requests |-> "idle"],
              msg |-> [h \in Requests |-> ""],
              jobs |-> {}, started |-> 0]

\* a request arrives and run() begins (lines 126-150)
RunArrive(h) ==
    /\ rnr.pc = "serve"
    /\ rnr.handler[h] = "idle"
    /\ rnr' = [rnr EXCEPT !.handler[h] = "check"]
    /\ RunnerFrame

\* line 152: if TASK_RUNNING.value != 1, else lines 175-179
RunCheck(h) ==
    /\ rnr.pc = "serve"
    /\ rnr.handler[h] = "check"
    /\ rnr' = IF rnr.TASK_RUNNING # 1
              THEN [rnr EXCEPT !.handler[h] = "start"]
              ELSE [rnr EXCEPT !.handler[h] = "done",
                               !.msg[h] = "Consensus Already Running"]
    /\ RunnerFrame

\* lines 153-170: p = Process(target=kickoff, ...); p.start()
RunStart(h) ==
    /\ rnr.pc = "serve"
    /\ rnr.handler[h] = "start"
    /\ rnr' = [rnr EXCEPT !.handler[h] = "set",
                          !.jobs = rnr.jobs \cup {h},
                          !.started = rnr.started + 1]
    /\ RunnerFrame

\* lines 171-174 and 179: with TASK_RUNNING.get_lock(): TASK_RUNNING.value = 1
RunSet(h) ==
    /\ rnr.pc = "serve"
    /\ rnr.handler[h] = "set"
    /\ rnr' = [rnr EXCEPT !.handler[h] = "done",
                          !.TASK_RUNNING = 1,
                          !.msg[h] = "Started Running Consensus"]
    /\ RunnerFrame

\* kickoff ends (lines 337-340): task.value = 0, and the process exits
JobFinish(j) ==
    /\ rnr.pc = "serve"
    /\ j \in rnr.jobs
    /\ rnr' = [rnr EXCEPT !.TASK_RUNNING = 0, !.jobs = rnr.jobs \ {j}]
    /\ RunnerFrame

RunnerNext ==
    \/ \E h \in Requests : RunArrive(h)
    \/ \E h \in Requests : RunCheck(h)
    \/ \E h \in Requests : RunStart(h)
    \/ \E h \in Requests : RunSet(h)
    \/ \E j \in Requests : JobFinish(j)

SpecRunner == RunnerInit /\ [][RunnerNext]_vars

----------------------------------------------------------------------------
(* Communicator.register_recv_callback *)

MaxParams == 4

\* what callers hand to register_recv_callback: a function or a bound
\* method with params declared positional parameters (self included for a
\* method), or an object that is not callable (a string in the test)
Callbacks ==
    [kind : {"function", "method"}, params : 0..MaxParams]
        \cup {[kind |-> "str", params |-> 0]}

\* lines 233-238: cb is self.recv_callback; exc is the exception raised,
\* "none" when the callback was registered.  inspect.getfullargspec lists
\* every declared positional parameter, the bound self of a method included.
register_recv_callback(cb, callback) ==
    IF callback.kind \notin {"function", "method"}
    THEN [exc |-> "TypeError", cb |-> cb]
    ELSE LET n_args == callback.params
         IN  IF n_args # 3
             THEN [exc |-> "ValueError", cb |-> cb]
             ELSE [exc |-> "none", cb |-> [cb EXCEPT !.fn = Some(callback)]]

----------------------------------------------------------------------------
(* SpecReg: register_recv_callback is called up to MaxRegs times on one    *)
(* transport (as in test_register_callback)                                *)

MaxRegs == 4

RegInit ==
    /\ tmp_data = EmptyDict
    /\ data_store = EmptyDict
    /\ last = NoLast
    /\ rt = RTIdle
    /\ NetIdle
    /\ cbk = NoCallback
    /\ life = LifeNew("UDP")
    /\ SideIdle
    /\ cons = ConsIdle
    /\ rnr = RnrIdle
    /\ fn = [pc |-> "register", n |-> 0, callback |-> None,
             before |-> None, exc |-> "none"]

RegRegister ==
    /\ fn.pc = "register"
    /\ fn.n < MaxRegs
    /\ \E callback \in Callbacks :
         LET r == register_recv_callback(cbk, callback)
         IN  /\ cbk' = r.cb
             /\ fn' = [fn EXCEPT !.n = fn.n + 1,
                                 !.callback = Some(callback),
                                 !.before = cbk.fn,
                                 !.exc = r.exc]
    /\ UNCHANGED <<tmp_data, data_store, last, rt, cons, rnr>>
    /\ UNCHANGED netvars
    /\ UNCHANGED sidevars

RegNext == RegRegister

SpecReg == RegInit /\ [][RegNext]_vars

----------------------------------------------------------------------------
(* SpecConsZero: the consensus job on a graph in which some degree lookups *)
(* of get_weights failed, so that the weight map of a node holds a         *)
(* neighbor with weight 0 (iterative.py lines 62-63).                      *)

\* the pairs <<n, m>> for which the lookup of m's degree by n failed
DownSets ==
    {{<<"n1", "n2">>}, {<<"n2", "n1">>}, {<<"n1", "n2">>, <<"n2", "n1">>},
     {<<"n2", "n3">>}}

\* kickoff: the weights of node n, the lookups in down answered by an
\* exception of requests.get
ConsWeightsDown(g, n, down) ==
    get_weights(Some(g[n]),
                [m \in NeighSet(Some(g[n])) |->
                    IF <<n, m>> \in down
                    THEN [kind |-> "raise", deg |-> 0]
                    ELSE [kind |-> "ok", deg |-> Len(g[m])]])

ConsZeroInit ==
    /\ tmp_data = EmptyDict
    /\ data_store = EmptyDict
    /\ last = NoLast
    /\ rt = RTIdle
    /\ NetIdle
    /\ cbk = NoCallback
    /\ life = LifeNew("UDP")
    /\ SideIdle
    /\ fn = FnIdle
    /\ rnr = RnrIdle
    /\ \E g \in {Pair, Line}, tc \in 1..MaxTc, down \in DownSets :
         /\ g # Pair => tc <= MaxTc3
         /\ g = Pair <=> <<"n2", "n3">> \notin down
         /\ cons = [pc |-> "run", nbrs |-> g, tc |-> tc, tag_id |-> 1,
                 orig |-> [n \in DOMAIN g |-> MixedData[n]],
                 weights |-> [n \in DOMAIN g |-> ConsWeightsDown(g, n, down)],
                 node |-> [n \in DOMAIN g |-> run_start(MixedData[n], g[n])],
                 store |-> [n \in DOMAIN g |-> EmptyDict],
                 net |-> {}, lost |-> {}]

SpecConsZero == ConsZeroInit /\ [][ConsNext]_vars

----------------------------------------------------------------------------
(* SpecStore: consumer threads call get(addr, tag) while the receive path  *)
(* completes messages for the same key (communicator.py lines 527-538 and  *)
(* 649-655), every statement a step of its own; fn holds the lock, the     *)
(* position of every thread and the record of what was written and         *)
(* returned.                                                               *)

MaxGets == 2

MaxWrites == 2

Consumers == {"c1", "c2"}

StoreAddr == "a1"

StoreTag == <<1, 0, 0, 0>>

\* lock_free gone wrong: acquire never waits
lock_free_always(lock) == TRUE

\* self.data_store_lock.acquire() returns when no thread holds the lock
lock_free(lock) == lock = "free"

StoreFrame ==
    /\ UNCHANGED <<tmp_data, last, rt, cbk, cons, rnr>>
    /\ UNCHANGED netvars
    /\ UNCHANGED sidevars

StoreInit ==
    /\ tmp_data = EmptyDict
    /\ data_store = EmptyDict
    /\ last = NoLast
    /\ rt = RTIdle
    /\ NetIdle
    /\ cbk = NoCallback
    /\ life = LifeNew("UDP")
    /\ SideIdle
    /\ cons = ConsIdle
    /\ rnr = RnrIdle
    /\ fn = [pc |-> "store", lock |-> "free",
             th |-> [c \in Consumers |->
                        [pc |-> "idle", data |-> None, n |-> 0]],
             rx |-> [pc |-> "idle", k |-> 0],
             written |-> {}, replaced |-> {}, returned |-> <<>>]

\* get, lines 527-533: the two membership tests, made without the lock;
\* None is returned when the key is not there
GetEnter(c) ==
    /\ fn.pc = "store"
    /\ fn.th[c].pc = "idle"
    /\ fn.th[c].n < MaxGets
    /\ LET tg_int == from_bytes_little(StoreTag)
       IN  fn' = IF StoreAddr \notin DOMAIN data_store
                 THEN [fn EXCEPT !.th[c].n = @ + 1]
                 ELSE IF tg_int \notin DOMAIN data_store[StoreAddr]
                 THEN [fn EXCEPT !.th[c].n = @ + 1]
                 ELSE [fn EXCEPT !.th[c].pc = "acquire"]
    /\ UNCHANGED data_store
    /\ StoreFrame

\* line 534: self.data_store_lock.acquire()
GetAcquire(c) ==
    /\ fn.pc = "store"
    /\ fn.th[c].pc = "acquire"
    /\ lock_free(fn.lock)
    /\ fn' = [fn EXCEPT !.lock = c, !.th[c].pc = "read"]
    /\ UNCHANGED data_store
    /\ StoreFrame

\* line 535: data = self.data_store[ip_addr][tg_int]
GetRead(c) ==
    /\ fn.pc = "store"
    /\ fn.th[c].pc = "read"
    /\ fn' = [fn EXCEPT
                !.th[c].data =
                    data_store[StoreAddr][from_bytes_little(StoreTag)],
                !.th[c].pc = "clear"]
    /\ UNCHANGED data_store
    /\ StoreFrame

\* line 536: self.data_store[ip_addr][tg_int] = None
GetClear(c) ==
    /\ fn.pc = "store"
    /\ fn.th[c].pc = "clear"
    /\ data_store' = Put(data_store, StoreAddr,
                         Put(data_store[StoreAddr],
                             from_bytes_little(StoreTag), None))
    /\ fn' = [fn EXCEPT !.th[c].pc = "release"]
    /\ StoreFrame

\* lines 537-538: the lock is released and data is returned
GetRelease(c) ==
    /\ fn.pc = "store"
    /\ fn.th[c].pc = "release"
    /\ fn' = [fn EXCEPT
                !.lock = "free",
                !.th[c] = [pc |-> "idle", data |-> None, n |-> @.n + 1],
                !.returned = IF fn.th[c].data = None THEN @
                             ELSE Append(@, <<c, fn.th[c].data[1]>>)]
    /\ UNCHANGED data_store
    /\ StoreFrame

\* receive, lines 649-650, a message of the key being complete: the address
\* is entered in the message store when it is new
RxEnter ==
    /\ fn.pc = "store"
    /\ fn.rx.pc = "idle"
    /\ fn.rx.k < MaxWrites
    /\ data_store' = IF StoreAddr \in DOMAIN data_store THEN data_store
                     ELSE Put(data_store, StoreAddr, EmptyDict)
    /\ fn' = [fn EXCEPT !.rx.pc = "acquire"]
    /\ StoreFrame

\* line 653: self.data_store_lock.acquire()
RxAcquire ==
    /\ fn.pc = "store"
    /\ fn.rx.pc = "acquire"
    /\ lock_free(fn.lock)
    /\ fn' = [fn EXCEPT !.lock = "rx", !.rx.pc = "write"]
    /\ UNCHANGED data_store
    /\ StoreFrame

\* line 654: self.data_store[addr][data_tag] = reassembled; the message
\* numbered k + 1 is the one byte k + 1
RxWrite ==
    /\ fn.pc = "store"
    /\ fn.rx.pc = "write"
    /\ LET old == Slot(data_store, StoreAddr, from_bytes_little(StoreTag))
       IN  fn' = [fn EXCEPT
                    !.rx.pc = "release",
                    !.written = @ \cup {<<fn.rx.k + 1>>},
                    !.replaced = IF old = None THEN @ ELSE @ \cup {old[1]}]
    /\ data_store' = store_message(data_store, StoreAddr,
                                   from_bytes_little(StoreTag),
                                   <<fn.rx.k + 1>>)
    /\ StoreFrame

\* line 655: self.data_store_lock.release()
RxRelease ==
    /\ fn.pc = "store"
    /\ fn.rx.pc = "release"
    /\ fn' = [fn EXCEPT !.lock = "free",
                        !.rx = [pc |-> "idle", k |-> @.k + 1]]
    /\ UNCHANGED data_store
    /\ StoreFrame

StoreNext ==
    \/ \E c \in Consumers : GetEnter(c)
    \/ \E c \in Consumers : GetAcquire(c)
    \/ \E c \in Consumers : GetRead(c)
    \/ \E c \in Consumers : GetClear(c)
    \/ \E c \in Consumers : GetRelease(c)
    \/ RxEnter \/ RxAcquire \/ RxWrite \/ RxRelease

SpecStore == StoreInit /\ [][StoreNext]_vars

----------------------------------------------------------------------------
(* SpecLoop: the receive loop of a listening UDP transport                 *)
(* (__run_listen__, lines 356-366) is handed packets of at least 8 bytes   *)
(* whose header fields are arbitrary.                                      *)

MaxLoopRx == 3

\* packets of 9 bytes: seq_total, seq_num, the tag 1 and one byte of payload
HdrGrams ==
    {pack_H(seq_total) \o pack_H(seq_num) \o LifeTag \o <<9>> :
        seq_total \in {0, 1, 2}, seq_num \in {0, 1, 2, 5}}

LoopInit ==
    /\ tmp_data = EmptyDict
    /\ data_store = EmptyDict
    /\ last = NoLast
    /\ rt = RTIdle
    /\ NetIdle
    /\ cbk = NoCallback
    /\ SideIdle
    /\ ExtraIdle
    /\ life = LifeListening

\* one iteration of the loop of __run_listen__: receive(data, addr[0]); an
\* exception other than BlockingIOError leaves the loop and ends the thread
LoopDeliver ==
    /\ life.listen_thread = "running"
    /\ life.rxn < MaxLoopRx
    /\ \E a \in Addrs, d \in HdrGrams :
          LET r == receive(tmp_data, data_store, cbk, recvfrom(d), a)
          IN  /\ tmp_data' = r.tmp
              /\ data_store' = r.store
              /\ cbk' = r.cb
              /\ life' = [life EXCEPT
                             !.rx = Some(d), !.rxn = @ + 1,
                             !.listen_thread = IF r.raised THEN "dead" ELSE @]
    /\ UNCHANGED <<last, rt, snd, ctor>>
    /\ UNCHANGED netvars
    /\ UNCHANGED extravars

LoopNext == LoopDeliver

SpecLoop == LoopInit /\ [][LoopNext]_vars

----------------------------------------------------------------------------
(* SpecKeys: packets of several (address, tag) pairs are processed by      *)
(* receive, in any interleaving, and get is called for any of the pairs.   *)

MaxKeyRx == 3

KeyAddrs == {"a1", "a2"}

\* the single packet of a one-byte message and the two packets of a
\* two-byte message, for each tag
KeyGrams ==
    {pack_H(0) \o pack_H(0) \o t \o <<7>> : t \in NetTags}
        \cup {pack_H(1) \o pack_H(n) \o t \o <<8 + n>> :
                 t \in NetTags, n \in {0, 1}}

KeysInit ==
    /\ tmp_data = EmptyDict
    /\ data_store = EmptyDict
    /\ last = NoLast
    /\ rt = RTIdle
    /\ NetIdle
    /\ cbk = NoCallback
    /\ SideIdle
    /\ ExtraIdle
    /\ life = LifeListening

\* receive(data, addr) in the receive loop
KeyReceive ==
    /\ life.rxn < MaxKeyRx
    /\ \E a \in KeyAddrs, d \in KeyGrams :
          LET r == receive(tmp_data, data_store, cbk, d, a)
          IN  /\ ~r.raised
              /\ tmp_data' = r.tmp
              /\ data_store' = r.store
              /\ cbk' = r.cb
              /\ last' = [NoLast EXCEPT !.op = "recv", !.addr = a,
                                         !.tag = Slice(d, 4, 8)]
    /\ life' = [life EXCEPT !.rxn = @ + 1]
    /\ UNCHANGED <<rt, snd, ctor>>
    /\ UNCHANGED netvars
    /\ UNCHANGED extravars

\* get(addr, tag) by the consumer
KeyGet ==
    /\ \E a \in KeyAddrs, t \in NetTags :
          LET g == get(data_store, a, t)
          IN  /\ data_store' = g.store
              /\ last' = [NoLast EXCEPT !.op = "get", !.addr = a, !.tag = t,
                                         !.val = g.ret]
    /\ UNCHANGED <<tmp_data, cbk, rt, life, snd, ctor>>
    /\ UNCHANGED netvars
    /\ UNCHANGED extravars

KeysNext == KeyReceive \/ KeyGet

SpecKeys == KeysInit /\ [][KeysNext]_vars

----------------------------------------------------------------------------
(* The arithmetic of run on Python floats.  get_weights divides with /,    *)
(* so every weight is a float (IEEE 754 binary64) and so are tempsum and   *)
(* the estimates from the first update on.  A float is kept here as its    *)
(* sign and its magnitude in units of 2^-54, the magnitude in two limbs,   *)
(* hi * 2^28 + lo: this holds every float that one iteration on small      *)
(* integer data produces (1/3 is 6004799503160661 * 2^-54), and every      *)
(* operation rounds the exact result to 53 significant bits, to nearest,   *)
(* ties to even.                                                           *)

Limb == 2 ^ 28

FNorm(neg, hi, lo) ==
    IF hi = 0 /\ lo = 0 THEN [neg |-> FALSE, hi |-> 0, lo |-> 0]
    ELSE [neg |-> neg, hi |-> hi, lo |-> lo]

\* float(v) for an integer v
float(v) == FNorm(v < 0, Abs(v) * (2 ^ 26), 0)

MagLess(a, b) == a.hi < b.hi \/ (a.hi = b.hi /\ a.lo < b.lo)

MagAdd(a, b, neg) ==
    FNorm(neg, a.hi + b.hi + ((a.lo + b.lo) \div Limb), (a.lo + b.lo) % Limb)

\* the magnitude of a less that of b, which is not the larger one
MagSub(a, b, neg) ==
    FNorm(neg, a.hi - b.hi - (IF a.lo < b.lo THEN 1 ELSE 0),
          (a.lo - b.lo + Limb) % Limb)

\* a + b in the reals
exact_add(a, b) ==
    IF a.neg = b.neg THEN MagAdd(a, b, a.neg)
    ELSE IF MagLess(a, b) THEN MagSub(b, a, b.neg)
    ELSE MagSub(a, b, a.neg)

\* the float nearest to a: a magnitude of 53 + s bits loses its last s bits
round53(a) ==
    LET s == IF a.hi < 2 ^ 25 THEN 0
             ELSE IF a.hi < 2 ^ 26 THEN 1
             ELSE IF a.hi < 2 ^ 27 THEN 2
             ELSE IF a.hi < 2 ^ 28 THEN 3
             ELSE 4
        p == 2 ^ s
        r == a.lo % p
        up == \/ 2 * r > p
              \/ 2 * r = p /\ (a.lo \div p) % 2 = 1
        lo == a.lo - r + (IF up THEN p ELSE 0)
    IN  IF s = 0 THEN a
        ELSE FNorm(a.neg, a.hi + (lo \div Limb), lo % Limb)

\* a + b on floats
float_add(a, b) == round53(exact_add(a, b))

\* w * d on floats, d an integer of small magnitude
float_mul(w, d) ==
    round53(FNorm(w.neg # (d < 0),
                  w.hi * Abs(d) + ((w.lo * Abs(d)) \div Limb),
                  (w.lo * Abs(d)) % Limb))

\* 1 / n, line 58, for n = max(degs[neigh], my_deg) + 1 in 2..4
float_inv(n) ==
    LET rem == (2 ^ 26) % n
        ql == ((rem * Limb) \div n)
                 + (IF 2 * ((rem * Limb) % n) > n THEN 1 ELSE 0)
    IN  FNorm(FALSE, ((2 ^ 26) \div n) + (ql \div Limb), ql % Limb)

\* the float of a weight of get_weights
float_weight(weight) ==
    IF weight.num = 0 THEN float(0) ELSE float_inv(weight.den)

\* float_accumulate gone wrong: the neighbor's value is added, not its
\* difference from the previous estimate
float_accumulate_no_diff(tempsum, weight, t, old_data) ==
    float_add(tempsum, float_mul(weight, t))

\* lines 117-120: diff = t - old_data; tempsum += neighbors[j] * diff, on
\* integer data
float_accumulate(tempsum, weight, t, old_data) ==
    float_add(tempsum, float_mul(weight, t - old_data))

RECURSIVE float_loop(_, _, _, _, _)
\* the loop of line 114 with every payload there at the first get
float_loop(todo, old_data, weights, data, tempsum) ==
    IF Len(todo) = 0 THEN tempsum
    ELSE float_loop(Tail(todo), old_data, weights, data,
                    float_accumulate(tempsum, float_weight(weights[Head(todo)]),
                                     data[Head(todo)], old_data))

\* run(orig_data, 1, tag_id, neighbors, communicator), every neighbor's
\* payload delivered: tempsum = 0, the loop, new_data = old_data + tempsum
float_run(orig_data, neigh_list, weights, data) ==
    float_add(float(orig_data),
              float_loop(neigh_list, orig_data, weights, data, float(0)))

----------------------------------------------------------------------------
(* SpecFloat: every node of a small graph, started with an integer, runs   *)
(* one iteration of consensus with the Metropolis-Hastings weights, every  *)
(* message delivered.                                                      *)

MaxVal == 2

FloatInit ==
    /\ tmp_data = EmptyDict
    /\ data_store = EmptyDict
    /\ last = NoLast
    /\ rt = RTIdle
    /\ NetIdle
    /\ cbk = NoCallback
    /\ life = LifeNew("UDP")
    /\ SideIdle
    /\ fn = FnIdle
    /\ rnr = RnrIdle
    /\ \E g \in ConsGraphs :
         \E orig \in [DOMAIN g -> 0..MaxVal] :
            cons = [pc |-> "float", nbrs |-> g, orig |-> orig,
                    weights |-> [n \in DOMAIN g |-> ConsWeights(g, n)],
                    est |-> [n \in DOMAIN g |-> None]]

\* node n runs its iteration: what it receives under the tag of iteration 0
\* is what each neighbor started with
FloatRun(n) ==
    /\ cons.pc = "float"
    /\ n \in DOMAIN cons.nbrs
    /\ cons.est[n] = None
    /\ cons' = [cons EXCEPT
                  !.est[n] = Some(float_run(cons.orig[n], cons.nbrs[n],
                                            cons.weights[n], cons.orig))]
    /\ ConsFrame

FloatNext == \E n \in {"n1", "n2", "n3"} : FloatRun(n)

SpecFloat == FloatInit /\ [][FloatNext]_vars

----------------------------------------------------------------------------
(* Properties of the fragmenter and of reassembly, checked under SpecRT *)

Created == rt.pc # "start"

RTKey == from_bytes_little(rt.tag)

InOrder(order) == \A i \in 1..Len(order) : order[i] = i

CeilDiv(a, b) == (a + b - 1) \div b

\* C1: fragmentation round trip.  When the packets of create_packets(d, t),
\* t a 4-byte tag, have been fed to receive in emitted order on a fresh
\* transport, the first get(addr, t) returns exactly d.
C1_RoundTrip ==
    (rt.pc = "fed" /\ rt.gets = 1 /\ InOrder(rt.order))
        => last.val = Some(rt.data)

C1_Witness ==
    /\ rt.pc = "fed" /\ rt.gets = 1 /\ InOrder(rt.order)
    /\ Len(rt.data) = 10 * max_data
    /\ Len(rt.packets) = 10
    /\ last.op = "get" /\ last.val = Some(rt.data)

\* C2: reassembly does not depend on arrival order.  Once every packet of a
\* message has been delivered exactly once, in whatever order, the message
\* store holds the original data for (addr, tag).
C2_OrderIndependent ==
    (rt.pc = "fed" /\ rt.gets = 0)
        => Slot(data_store, RTAddr, RTKey) = Some(rt.data)

C2_Witness ==
    /\ rt.pc = "fed" /\ rt.gets = 0
    /\ rt.order = <<3, 1, 2>>
    /\ Slot(data_store, RTAddr, RTKey) = Some(rt.data)

\* C7: sequence header integrity.  The i-th of the n emitted packets
\* (i = 0..n-1) carries seqNum = i, every packet carries seqTotal = n-1, and
\* bytes 4..7 of every packet are the first 4 bytes of the tag.
C7_HeaderIntegrity ==
    Created =>
        \A i \in 1..Len(rt.packets) :
            /\ unpack_H(SubSeq(rt.packets[i], 3, 4)) = i - 1
            /\ unpack_H(SubSeq(rt.packets[i], 1, 2)) = Len(rt.packets) - 1
            /\ SubSeq(rt.packets[i], 5, 8) = SubSeq(rt.tag, 1, 4)

C7_Witness ==
    /\ Created
    /\ Len(rt.packets) = 4
    /\ Len(rt.tag) = 5
    /\ unpack_H(SubSeq(rt.packets[4], 3, 4)) = 3
    /\ unpack_H(SubSeq(rt.packets[1], 1, 2)) = 3

\* C8: packet count.  create_packets emits one packet when
\* len(data) <= maxChunk = 500 and ceil(len(data) / maxChunk) packets for
\* every longer payload.
C8_PacketCount ==
    Created =>
        Len(rt.packets) = IF Len(rt.data) <= max_data THEN 1
                          ELSE CeilDiv(Len(rt.data), max_data)

\* C9: every packet is MTU-bounded.  The payload after the 8-byte header is at
\* most maxChunk = 500 bytes in every emitted packet, so no packet exceeds
\* 508 bytes.
C9_MtuBounded ==
    Created =>
        \A i \in 1..Len(rt.packets) :
            /\ Len(rt.packets[i]) - 8 <= max_data
            /\ Len(rt.packets[i]) <= max_payload

----------------------------------------------------------------------------
(* Properties of tag reuse and of the receive callback, checked under      *)
(* SpecSeq                                                                 *)

\* C11: tag reuse after completion.  For messages m1, m2, ... sent from the
\* same address with the same tag, all packets of each being received and
\* get being called before the next message's packets arrive, the k-th get
\* returns exactly mk, whatever the lengths and packet counts.
C11_TagReuse ==
    (rt.pc = "fed" /\ rt.gets = 1)
        => (last.op = "get" /\ last.val = Some(rt.data))

\* the third message has two packets, the one before it had three
C11_Witness ==
    /\ rt.pc = "fed" /\ rt.gets = 1
    /\ rt.round = 3
    /\ Len(rt.packets) = 2
    /\ rt.prevn = 3
    /\ last.val = Some(rt.data)

\* the step feeds the last missing packet of the current message
Completes == rt.pending # {} /\ rt'.pending = {}

----------------------------------------------------------------------------
(* Properties of send, checked under SpecSend *)

\* the first sendto that did not succeed, 0 when all succeeded
FirstFailure ==
    IF \E i \in 1..snd.n : snd.outs[i] # "ok"
    THEN CHOOSE i \in 1..snd.n :
            /\ snd.outs[i] # "ok"
            /\ \A j \in 1..(i - 1) : snd.outs[j] = "ok"
    ELSE 0

\* the first sendto that raised, 0 when none raised
FirstRaise ==
    IF \E i \in 1..snd.n : snd.outs[i] = "err"
    THEN CHOOSE i \in 1..snd.n :
            /\ snd.outs[i] = "err"
            /\ \A j \in 1..(i - 1) : snd.outs[j] # "err"
    ELSE 0

\* C13: send on an open transport returns true if and only if every packet
\* of the message was handed to the socket without error and with a
\* non-negative byte count; it returns false as soon as any packet's
\* underlying send raises an error or reports a negative count, that is, the
\* failing sendto is the last one it makes.
C13_SendResult ==
    snd.pc = "done" =>
        /\ snd.ret <=> (\A i \in 1..snd.n : snd.outs[i] = "ok")
        /\ FirstFailure # 0 => snd.attempts = FirstFailure

\* C13 as amended: send returns true if and only if every packet was handed
\* to the socket without error and with a non-negative byte count; when a
\* sendto raises, send returns false at once and makes no further sendto;
\* when a sendto reports a negative count, send goes on with the remaining
\* packets and returns false after the last sendto.
C13_SendResultAmended ==
    snd.pc = "done" =>
        /\ snd.exc = "none"
        /\ snd.ret <=> (\A i \in 1..snd.n : snd.outs[i] = "ok")
        /\ FirstRaise # 0 => (snd.attempts = FirstRaise /\ ~snd.ret)
        /\ FirstRaise = 0 => snd.attempts = snd.n

\* a negative count on the first of four packets, an OSError on the third
C13_Witness ==
    /\ snd.pc = "done"
    /\ snd.outs = <<"neg", "ok", "err", "ok">>
    /\ snd.attempts = 3
    /\ ~snd.ret

\* C14: partial-failure semantics of send.  When the sendto of one packet
\* fails (raises an error or reports a negative byte count), send still
\* attempts every remaining packet of the message before returning false.
C14_PartialFailure ==
    (snd.pc = "done" /\ FirstFailure # 0)
        => (snd.attempts = snd.n /\ ~snd.ret)

----------------------------------------------------------------------------
(* Properties of the lifecycle, checked under SpecLife *)

\* the step is the public call of the given name
CallStep(name) == life'.calls = life.calls + 1 /\ life'.call = name

\* the transport's own state, without the observer fields
ProgramState(l) ==
    [l EXCEPT !.call = "", !.exc = "", !.calls = 0, !.late = 0]

\* C15: the first close() on an open transport succeeds and leaves is_open
\* false and is_listening false; every later close() fails with
\* BrokenPipeError and changes no state.
C15_CloseOnce ==
    [][ CallStep("close") =>
          IF life.is_open
          THEN /\ life'.exc = "none"
               /\ ~life'.is_open
               /\ ~life'.is_listening
          ELSE /\ life'.exc = "BrokenPipeError"
               /\ ProgramState(life') = ProgramState(life)
               /\ tmp_data' = tmp_data
               /\ data_store' = data_store
               /\ cbk' = cbk
      ]_vars

\* a second close on a transport that was listening when it was closed
C15_Witness ==
    /\ life.call = "close"
    /\ life.exc = "BrokenPipeError"
    /\ life.late >= 1
    /\ life.threads = 1
    /\ ~life.is_open
    /\ ~life.is_listening

\* C16: after close() has completed, every public operation attempted on
\* the transport (listen, send, get, close) fails with the closed-transport
\* error instead of acting on the transport.
C16_ClosedRejectsAll ==
    (~life.is_open /\ life.late >= 1
        /\ life.call \in {"listen", "send", "get", "close"})
        => life.exc = "BrokenPipeError"

\* C17: stop_listen() stops only the receive loop: after it returns on a
\* transport that has not been closed, the listening and sending sockets are
\* still open, so a subsequent listen() starts a receive loop.
C17_StopKeepsSockets ==
    [][ /\ (CallStep("stop_listen") /\ life.is_open)
            => /\ ~life'.is_listening
               /\ life'.listen_sock # "closed"
               /\ life'.send_sock = "open"
        /\ (CallStep("listen") /\ life.is_open /\ life.listen_thread = "none")
            => life'.listen_thread = "running"
      ]_vars

\* C17 as amended: stop_listen() on a listening transport stops the receive
\* loop and leaves the sending socket open, but the listening socket cannot
\* be used again: in UDP mode the receive loop closes it when it stops, in
\* stream mode it stays bound.  A subsequent listen() starts a task that
\* fails at bind, so the transport receives no datagram and accepts no
\* connection any more.
C17_StopThenListenFails ==
    [][ /\ (CallStep("stop_listen") /\ life.listen_thread # "none")
            => /\ life'.listen_thread = "none"
               /\ ~life'.is_listening
               /\ life'.send_sock = "open"
               /\ life'.listen_sock \in {"closed", "bound"}
               /\ (life.protocol = "UDP" /\ life.listen_thread = "running")
                     => life'.listen_sock = "closed"
               /\ life.protocol = "TCP" => life'.listen_sock = "bound"
        /\ (CallStep("listen") /\ life.is_open /\ life.listen_thread = "none"
                /\ life.threads >= 1)
            => /\ life'.listen_thread = "dead"
               /\ life'.is_listening
        /\ (life.protocol = "UDP" /\ life'.rxn # life.rxn)
            => life.threads = 1
        /\ ~(life'.connections \subseteq life.connections)
            => life.threads = 1
      ]_vars

\* listen, stop_listen, listen on a UDP transport: the second thread is dead
\* on a closed socket while is_listening is true
C17_Witness ==
    /\ life.protocol = "UDP"
    /\ life.call = "listen"
    /\ life.threads = 2
    /\ life.listen_thread = "dead"
    /\ life.listen_sock = "closed"
    /\ life.send_sock = "open"
    /\ life.is_listening
    /\ life.is_open

\* C18: when close() returns every background task of the transport has
\* terminated, so no reassembly entry, message-store slot or
\* connection-table entry changes in any state after close() has returned
\* (other than by a public call).
C18_QuietAfterClose ==
    [][ (~life.is_open /\ life'.calls = life.calls)
            => /\ tmp_data' = tmp_data
               /\ data_store' = data_store
               /\ life'.connections = life.connections
      ]_vars

\* C19: a malformed datagram (fewer than 8 bytes, including the empty
\* datagram) arriving at the receive loop is dropped: it raises nothing out
\* of the receive path, changes neither the reassembly state nor the message
\* store, and the receive loop keeps running.
C19_MalformedDropped ==
    [][ (life.protocol = "UDP" /\ life'.rxn = life.rxn + 1
            /\ Len(life'.rx[1]) < 8)
            => /\ tmp_data' = tmp_data
               /\ data_store' = data_store
               /\ life'.listen_thread = "running"
      ]_vars

\* C30: in stream mode a reader that observes end-of-stream, or a read
\* error, ends, closes its connection and removes its entry from
\* self.connections: checked here for end-of-stream, recv returning b''.
C30_ReaderEndsAtEOF ==
    [][\A a \in DOMAIN life.readers :
          (/\ life.protocol = "TCP"
           /\ life.readers[a] = "recv"
           /\ life'.rxn = life.rxn + 1
           /\ life'.rx = Some(<<>>))
              => (a \notin DOMAIN life'.readers /\ a \notin life'.connections)]_vars

\* C31: listen() on an open transport starts exactly one background receive
\* task: a second listen() while a task exists starts no further task, and
\* at every point between public calls is_listening is true exactly when a
\* listener task exists.
C31_ListeningIffTask ==
    life.is_listening <=> life.listen_thread = "running"

----------------------------------------------------------------------------
(* Properties of the constructor, checked under SpecCtor *)

\* C20: the port that send transmits to is the send_port given at
\* construction; it equals listen_port only when no send_port was supplied.
\* For every valid pair (listen_port, send_port) the constructed transport
\* has send_port equal to the supplied value.
C20_SendPort ==
    (ctor.pc = "done" /\ ctor.obj.exc = "none")
        => ctor.obj.send_port = IF ctor.send_port = None
                                THEN ctor.listen_port
                                ELSE ctor.send_port[1]

----------------------------------------------------------------------------
(* Properties of build_tag, checked under SpecTag *)

\* C21: for every run id r >= 0 and every iteration number n >= 0 (n = 0,
\* n = 2^24 and n > 2^24 included) build_tag(r, n) never fails and returns
\* exactly 4 bytes, the first r mod 256, the last three n mod 2^24 read
\* little-endian.
C21_TagLayout ==
    (fn.pc = "build_tag" /\ fn.out # None) =>
        LET tag == fn.out[1].val
        IN  /\ fn.out[1].exc = "none"
            /\ Len(tag) = 4
            /\ tag[1] = fn.tag_id % 256
            /\ from_bytes_little(SliceFrom(tag, 1)) = fn.num % (256 ^ 3)

----------------------------------------------------------------------------
(* Properties of get_weights, checked under SpecWeights *)

\* C22: get_weights returns a map with exactly one entry per neighbor:
\* 1/(max(remote degree, number of neighbors) + 1) where the degree lookup
\* succeeded and 0 where it failed; a failure neither aborts the call nor
\* changes another neighbor's weight; no or no neighbors give the empty map.
C22_Weights ==
    (fn.pc = "get_weights" /\ fn.out # None) =>
        LET w == fn.out[1]
            nbs == NeighSet(fn.neighbors)
        IN  /\ DOMAIN w = nbs
            /\ \A n \in nbs :
                 IF fn.resp[n].kind = "ok"
                 THEN /\ w[n].num = 1
                      /\ w[n].den > fn.resp[n].deg
                      /\ w[n].den > Cardinality(nbs)
                      /\ \/ w[n].den = fn.resp[n].deg + 1
                         \/ w[n].den = Cardinality(nbs) + 1
                 ELSE w[n].num = 0

\* a lookup raised between two that succeeded
C22_Witness ==
    /\ fn.pc = "get_weights"
    /\ fn.out # None
    /\ fn.neighbors # None
    /\ Len(fn.neighbors[1]) = 3
    /\ fn.resp[Neighs[1]] = [kind |-> "ok", deg |-> 1]
    /\ fn.resp[Neighs[2]].kind = "raise"
    /\ fn.resp[Neighs[3]] = [kind |-> "ok", deg |-> 3]
    /\ fn.out[1][Neighs[1]] = [num |-> 1, den |-> 4]
    /\ fn.out[1][Neighs[2]].num = 0
    /\ fn.out[1][Neighs[3]] = [num |-> 1, den |-> 4]

----------------------------------------------------------------------------
(* Properties of the consensus run, checked under SpecCons and, for        *)
(* termination, under SpecConsFair                                         *)

ConsNodes == DOMAIN cons.nbrs

\* the number of terms node n has added for neighbor m in iteration i
TermCount(n, i, m) ==
    Cardinality({k \in 1..Len(cons.node[n].terms) :
                    /\ cons.node[n].terms[k][1] = i
                    /\ cons.node[n].terms[k][2] = m})

\* C23: the value run returns is None or the estimate after all tc
\* iterations, every neighbor's payload of every iteration applied; a run
\* that timed out returns None, never a partially updated estimate.
C23_NoPartialEstimate ==
    \A n \in ConsNodes :
        LET nd == cons.node[n]
        IN  /\ nd.pc # "done" => nd.ret = None
            /\ (nd.pc = "done" /\ nd.cause # "none") => nd.ret = None
            /\ nd.ret # None =>
                  /\ nd.ret = Some(nd.new_data)
                  /\ nd.i = cons.tc
                  /\ Len(nd.terms) = cons.tc * Len(cons.nbrs[n])
                  /\ \A i \in 0..(cons.tc - 1) :
                       \A m \in NeighSet(Some(cons.nbrs[n])) :
                           TermCount(n, i, m) = 1

\* a run timed out in its second iteration, its estimate already updated once
C23_Witness ==
    \E n \in ConsNodes :
        /\ cons.node[n].pc = "done"
        /\ cons.node[n].ret = None
        /\ cons.node[n].cause # "none"
        /\ cons.node[n].i = 1
        /\ cons.node[n].new_data # cons.orig[n]

\* C24: every run terminates, whatever the neighbors and the network do (a
\* neighbor may never send anything): the run of node n2 eventually returns
\* the estimate or None.
C24_Terminates == <>(cons.node["n2"].pc = "done")

\* node n2 gave up on a neighbor that never sent anything
C24_Witness ==
    /\ cons.node["n2"].pc = "done"
    /\ cons.node["n2"].ret = None
    /\ \E m \in NeighSet(Some(cons.nbrs["n2"])) :
          /\ cons.node[m].hist = <<>>
          /\ cons.node["n2"].missing_data[m] # <<>>

RECURSIVE WeightedDiffs(_, _, _, _)
\* the sum over the neighbors in todo of weight * (what the neighbor sent in
\* iteration i - old)
WeightedDiffs(todo, n, i, old) ==
    IF Len(todo) = 0 THEN Frac[0, 1]
    ELSE FAdd[FMul[cons.weights[n][Head(todo)],
                   FSub[cons.node[Head(todo)].hist[i + 1], old]],
              WeightedDiffs(Tail(todo), n, i, old)]

\* C25: in every iteration that completes, the new estimate is the previous
\* one plus the sum over all neighbors of weight * (the neighbor's value for
\* this iteration - previous estimate), one term per neighbor, whether the
\* value was there at the first get or came from the missing-data queue.
C25_UpdateRule ==
    [][\A n \in ConsNodes :
          cons'.node[n].i = cons.node[n].i + 1 =>
              /\ cons'.node[n].new_data =
                     FAdd[cons.node[n].old_data,
                          WeightedDiffs(cons.nbrs[n], n, cons.node[n].i,
                                        cons.node[n].old_data)]
              /\ \A m \in NeighSet(Some(cons.nbrs[n])) :
                     Cardinality({k \in 1..Len(cons'.node[n].terms) :
                                     /\ cons'.node[n].terms[k][1] = cons.node[n].i
                                     /\ cons'.node[n].terms[k][2] = m}) = 1]_vars

\* a node has completed an iteration that changed its estimate, one value of
\* it found at the first get and one picked up from the queue
C25_Witness ==
    \E n \in ConsNodes :
        /\ cons.node[n].i >= 1
        /\ cons.node[n].new_data # cons.orig[n]
        /\ \E k \in 1..Len(cons.node[n].terms) :
              cons.node[n].terms[k] = <<0, cons.nbrs[n][1], "first">>
        /\ \E k \in 1..Len(cons.node[n].terms) :
              /\ cons.node[n].terms[k][1] = 0
              /\ cons.node[n].terms[k][3] = "queue"

\* C26: when all nodes of a connected network start with the same value,
\* every node's estimate after each iteration is its initial value.
C26_FixedPoint ==
    (\A n, m \in ConsNodes : cons.orig[n] = cons.orig[m]) =>
        \A n \in ConsNodes :
            /\ cons.node[n].new_data = cons.orig[n]
            /\ \A k \in 1..Len(cons.node[n].hist) :
                   cons.node[n].hist[k] = cons.orig[n]

\* the three nodes of the fully connected graph, started with the same
\* value, have all returned it
C26_Witness ==
    /\ cons.nbrs = Triangle
    /\ \A n \in ConsNodes :
          /\ cons.node[n].pc = "done"
          /\ cons.node[n].ret = Some(cons.orig[n])
          /\ Len(cons.node[n].terms) = 2

\* C27: the loss of a single packet from one neighbor is absorbed: no run is
\* aborted while it waits for a message the network dropped.
C27_LossAbsorbed ==
    \A n \in ConsNodes : cons.node[n].cause # "lost"

\* C33: the engine advances from iteration i to iteration i+1 only when the
\* missing-data queue of every neighbor is empty, the iteration-i payload of
\* every neighbor retrieved; at the start of every iteration all queues are
\* empty, and a queue never holds more than one tag nor a tag of an earlier
\* iteration.
C33_QueuesDrained ==
    \A n \in ConsNodes :
        LET nd == cons.node[n]
        IN  /\ \A m \in NeighSet(Some(cons.nbrs[n])) :
                  /\ Len(nd.missing_data[m]) <= 1
                  /\ nd.missing_data[m] # <<>> =>
                        /\ nd.i < cons.tc
                        /\ nd.missing_data[m][1] = ConsTag(nd.i)
                  /\ (nd.pc = "iterate" \/ nd.ret # None) =>
                        nd.missing_data[m] = <<>>
                  /\ \A i \in 0..(nd.i - 1) : TermCount(n, i, m) = 1

\* a node waits in iteration 1 with the tag of iteration 1 queued for a
\* neighbor whose payload of iteration 0 it had picked up from the queue
C33_Witness ==
    \E n \in ConsNodes :
        \E m \in NeighSet(Some(cons.nbrs[n])) :
            /\ cons.node[n].i = 1
            /\ cons.node[n].pc = "wait"
            /\ cons.node[n].missing_data[m] = <<ConsTag(1)>>
            /\ \E k \in 1..Len(cons.node[n].terms) :
                  cons.node[n].terms[k] = <<0, m, "queue">>

\* the message node m transmits to node n in iteration k
SentMsg(m, n, k) ==
    [src |-> m, dst |-> n, tag |-> ConsTag(k),
     data |-> matrix_to_bytes(cons.node[m].hist[k + 1])]

\* C36: the iteration indices of two neighboring nodes differ by at most 1
\* (while both are running, and also when one of them has returned), and a
\* payload that a faster neighbor sent for a later iteration, once stored,
\* stays in the message store until the local node reaches that iteration.
C36_LockStep ==
    \A n \in ConsNodes :
        \A m \in NeighSet(Some(cons.nbrs[n])) :
            /\ cons.node[n].i <= cons.node[m].i + 1
            /\ cons.node[n].i <= Len(cons.node[m].hist)
            /\ \A k \in 0..(Len(cons.node[m].hist) - 1) :
                  (/\ SentMsg(m, n, k) \notin cons.net
                   /\ SentMsg(m, n, k) \notin cons.lost
                   /\ \/ k > cons.node[n].i
                      \/ k = cons.node[n].i /\ cons.node[n].pc = "iterate")
                     => Slot(cons.store[n], m, from_bytes_little(ConsTag(k)))
                            = Some(SentMsg(m, n, k).data)

\* node n is in its iteration 0 while its neighbor m is in iteration 1, and
\* the payload m sent for iteration 1 is in the message store of n
C36_Witness ==
    \E n \in ConsNodes :
        \E m \in NeighSet(Some(cons.nbrs[n])) :
            /\ cons.node[n].i = 0
            /\ cons.node[n].pc = "wait"
            /\ cons.node[m].i = 1
            /\ Len(cons.node[m].hist) = 2
            /\ Slot(cons.store[n], m, from_bytes_little(ConsTag(1)))
                  = Some(SentMsg(m, n, 1).data)

\* iteration numbers below 2^24, the largest ones included
SmallNums == {x \in TagNums : x < 256 ^ 3}

\* build_tag on the run ids of TagIds and the iteration numbers below 2^24:
\* no call fails, every tag has 4 bytes, and two iteration numbers of one
\* run never have the same tag
TagsDistinct ==
    \A r \in TagIds :
        \A i, j \in SmallNums :
            /\ build_tag(r, i).exc = "none"
            /\ Len(build_tag(r, i).val) = TAG_SIZE
            /\ i # j => build_tag(r, i).val # build_tag(r, j).val

\* C37: the payload a node applies from neighbor m during its iteration i
\* is the estimate that m serialized in m's own iteration i: the tags
\* build_tag gives a run for two different iteration numbers below 2^24
\* differ, so a message of one iteration is never consumed in another.
C37_IterationMatched ==
    [][/\ TagsDistinct
       /\ \A i, j \in 0..(cons.tc - 1) :
             i # j => from_bytes_little(ConsTag(i)) # from_bytes_little(ConsTag(j))
       /\ \A n \in ConsNodes :
             Len(cons'.node[n].terms) = Len(cons.node[n].terms) + 1 =>
                 LET nd == cons.node[n]
                     m == cons'.node[n].terms[Len(cons'.node[n].terms)][2]
                 IN  /\ cons'.node[n].terms[Len(cons'.node[n].terms)][1]
                            = nd.i
                     /\ Len(cons.node[m].hist) > nd.i
                     /\ cons'.node[n].tempsum =
                            accumulate(nd.tempsum, cons.weights[n][m],
                                       cons.node[m].hist[nd.i + 1],
                                       nd.old_data)]_vars

\* a node has applied, in its iteration 1, the second estimate of a
\* neighbor, which differs from the first one, picked up from the queue in
\* iteration 0
C37_Witness ==
    \E n \in ConsNodes :
        \E m \in NeighSet(Some(cons.nbrs[n])) :
            /\ cons.node[n].i >= 1
            /\ Len(cons.node[m].hist) = 2
            /\ cons.node[m].hist[1] # cons.node[m].hist[2]
            /\ \E k \in 1..Len(cons.node[n].terms) :
                  cons.node[n].terms[k] = <<0, m, "queue">>
            /\ \E k \in 1..Len(cons.node[n].terms) :
                  /\ cons.node[n].terms[k][1] = 1
                  /\ cons.node[n].terms[k][2] = m

----------------------------------------------------------------------------
(* Properties of the consensus run with weight-0 neighbors, checked under  *)
(* SpecConsZero                                                            *)

\* the neighbors of node n that have a weight other than 0
Weighted(n) ==
    SelectSeq(cons.nbrs[n], LAMBDA m : cons.weights[n][m] # ZeroWeight)

\* C32: in every iteration the engine transmits its estimate to every
\* neighbor in the weight map and waits for the payload of every one of
\* them, those of weight 0 included: the payload of a weight-0 neighbor
\* leaves the estimate unchanged, but while it is absent the iteration does
\* not end, until the retry budget is exhausted and the run returns None.
C32_ZeroWeightStillAwaited ==
    [][\A n \in ConsNodes :
          LET nd == cons.node[n]
          IN  /\ (nd.pc = "iterate" /\ cons'.node[n].pc # "iterate") =>
                    \A m \in NeighSet(Some(cons.nbrs[n])) :
                        [src |-> n, dst |-> m, tag |-> ConsTag(nd.i),
                         data |-> matrix_to_bytes(nd.new_data)] \in cons'.net
              /\ cons'.node[n].i = nd.i + 1 =>
                    /\ \A m \in NeighSet(Some(cons.nbrs[n])) :
                          \E k \in 1..Len(cons'.node[n].terms) :
                              /\ cons'.node[n].terms[k][1] = nd.i
                              /\ cons'.node[n].terms[k][2] = m
                    /\ cons'.node[n].new_data =
                          FAdd[nd.old_data,
                               WeightedDiffs(Weighted(n), n, nd.i, nd.old_data)]
              /\ (nd.pc = "wait" /\ cons'.node[n] # nd
                    /\ get(cons.store[n], cons.nbrs[n][nd.j],
                           Head(nd.missing_data[cons.nbrs[n][nd.j]])).ret = None)
                    => \/ /\ cons'.node[n].pc = "wait"
                          /\ cons'.node[n].i = nd.i
                       \/ /\ nd.expired
                          /\ cons'.node[n].pc = "done"
                          /\ cons'.node[n].ret = None]_vars

\* a node whose only neighbor has weight 0 applied that neighbor's payload
\* in iteration 0, which left its estimate as it was, and gave up in
\* iteration 1 while it waited for the payload of the same neighbor
C32_Witness ==
    \E n \in ConsNodes :
        /\ Len(cons.nbrs[n]) = 1
        /\ cons.weights[n][cons.nbrs[n][1]] = ZeroWeight
        /\ cons.node[n].i = 1
        /\ \E k \in 1..Len(cons.node[n].terms) :
              cons.node[n].terms[k][1] = 0
        /\ cons.node[n].new_data = cons.orig[n]
        /\ cons.node[n].pc = "done"
        /\ cons.node[n].ret = None
        /\ cons.node[n].missing_data[cons.nbrs[n][1]] # <<>>

----------------------------------------------------------------------------
(* Properties of the message store under concurrent access, checked under  *)
(* SpecStore                                                               *)

\* C34: when several consumer threads call get(addr, tag) concurrently with
\* each other and with the receive path completing messages for the same
\* key, each stored message is returned by at most one get call, and a
\* message written by the receive path is never cleared without being
\* returned: it has been returned, is in the hands of the get call that is
\* about to return it, is still in its slot, or was replaced by a later
\* message.
C34_StoreExclusion ==
    fn.pc = "store" =>
        /\ \A i, j \in 1..Len(fn.returned) :
              i # j => fn.returned[i][2] # fn.returned[j][2]
        /\ \A msg \in fn.written :
              \/ \E i \in 1..Len(fn.returned) : fn.returned[i][2] = msg
              \/ \E c \in Consumers : fn.th[c].data = Some(msg)
              \/ Slot(data_store, StoreAddr, from_bytes_little(StoreTag))
                    = Some(msg)
              \/ msg \in fn.replaced

\* consumer c1 holds the lock with the first message read and the slot not
\* yet cleared, while c2, past the membership tests, and the receive path
\* with the second message both wait for the lock
C34_Witness ==
    /\ fn.pc = "store"
    /\ fn.lock = "c1"
    /\ fn.th["c1"].pc = "clear"
    /\ fn.th["c1"].data = Some(<<1>>)
    /\ fn.th["c2"].pc = "acquire"
    /\ fn.rx.pc = "acquire"
    /\ fn.rx.k = 1

----------------------------------------------------------------------------
(* Properties of the receive loop, checked under SpecLoop *)

\* C35: for every packet of at least 8 bytes, whatever its header values,
\* receive returns normally and raises no error; a packet whose seqNum is
\* greater than its seqTotal (seqTotal = 0, seqNum = 5) does not terminate
\* the background receive loop.
C35_ReceiveNeverRaises ==
    [][(life'.rxn = life.rxn + 1 /\ Len(life'.rx[1]) >= 8)
          => life'.listen_thread = "running"]_vars

----------------------------------------------------------------------------
(* Properties of the keys of the reassembly state and of the message       *)
(* store, checked under SpecKeys                                           *)

\* the (address, tag) pairs
AllKeys == {<<a, from_bytes_little(t)>> : a \in KeyAddrs, t \in NetTags}

\* the reassembly entry of key k, if there is one
EntryAt(tmp, k) == IF HasEntry(tmp, k) THEN <<tmp[k[1]][k[2]]>> ELSE <<>>

\* the message-store slot of key k, if there is one
SlotAt(store, k) == IF HasEntry(store, k) THEN <<store[k[1]][k[2]]>> ELSE <<>>

\* C38: processing a packet from address a with tag t changes only the
\* reassembly entry and the message-store slot of (a, t), and get(a, t)
\* changes only the message-store slot of (a, t); the entries and the
\* stored messages of every other pair are left unchanged, and get never
\* modifies reassembly state.
C38_KeyIsolation ==
    [][LET k == <<last'.addr, from_bytes_little(last'.tag)>>
       IN  /\ last'.op \in {"recv", "get"} =>
                 \A k2 \in AllKeys \ {k} :
                     /\ EntryAt(tmp_data', k2) = EntryAt(tmp_data, k2)
                     /\ SlotAt(data_store', k2) = SlotAt(data_store, k2)
           /\ last'.op = "get" => tmp_data' = tmp_data]_vars

\* a packet completes a message of one key while another key of the same
\* address holds a stored message and a key of the other address holds a
\* partial reassembly entry
C38_Witness ==
    /\ last.op = "recv"
    /\ last.addr = "a1"
    /\ last.tag = <<1, 0, 0, 0>>
    /\ SlotAt(data_store, <<"a1", 1>>) = <<Some(<<7>>)>>
    /\ SlotAt(data_store, <<"a1", 2>>) = <<Some(<<7>>)>>
    /\ HasEntry(tmp_data, <<"a2", 1>>)
    /\ Cardinality(DOMAIN tmp_data["a2"][1].packets) = 1

----------------------------------------------------------------------------
(* Properties of the arithmetic of the consensus run, checked under        *)
(* SpecFloat                                                               *)

RECURSIVE ExactSum(_, _)
\* the sum in the reals of the floats f[n], n in todo
ExactSum(todo, f) ==
    IF Len(todo) = 0 THEN float(0)
    ELSE exact_add(f[Head(todo)], ExactSum(Tail(todo), f))

\* the nodes of the graph, in sequence
NodeSeq == SelectSeq(<<"n1", "n2", "n3">>, LAMBDA n : n \in DOMAIN cons.nbrs)

\* every node has completed its iteration
AllUpdated == cons.pc = "float" /\ \A n \in DOMAIN cons.nbrs : cons.est[n] # None

\* the sum of the estimates less the sum of the initial values
SumDrift ==
    exact_add(ExactSum(NodeSeq, [n \in DOMAIN cons.nbrs |-> cons.est[n][1]]),
              [ExactSum(NodeSeq, [n \in DOMAIN cons.nbrs |-> float(cons.orig[n])])
                  EXCEPT !.neg = TRUE])

SymmetricWeights ==
    \A n \in DOMAIN cons.nbrs :
        \A m \in NeighSet(Some(cons.nbrs[n])) :
            cons.weights[n][m] = cons.weights[m][n]

\* C40: with symmetric pairwise weights and every message delivered, the
\* sum over all nodes of their estimates after an iteration equals the sum
\* of the nodes' initial values.
C40_AveragePreserved ==
    (AllUpdated /\ SymmetricWeights) => SumDrift = float(0)

\* C40 as amended: the sum of the estimates after an iteration equals the
\* sum of the initial values up to the rounding of the float operations of
\* the update: exactly where the weights are 1/2 (two nodes), and to within
\* 2^-50 on the graphs of three nodes, where the weights are 1/3.
C40_AverageWithinRounding ==
    (AllUpdated /\ SymmetricWeights) =>
        /\ SumDrift.hi = 0
        /\ SumDrift.lo <= 16
        /\ cons.nbrs = Pair => SumDrift = float(0)

\* the three nodes of the line, started with 1, 2 and 0, have completed
\* their iteration: 1 + 1/3, 2 - 1/3 - 2/3 and 0 + 2/3 in floats, whose sum
\* is not 3
C40_Witness ==
    /\ cons.pc = "float"
    /\ cons.nbrs = Line
    /\ cons.orig = ("n1" :> 1) @@ ("n2" :> 2) @@ ("n3" :> 0)
    /\ AllUpdated
    /\ SumDrift # float(0)

----------------------------------------------------------------------------
(* Properties of the node runner, checked under SpecRunner *)

\* C28: at most one consensus job runs per node at any time (so no process
\* is started while a job is running), under every interleaving of start
\* requests with each other and with the end of the running job.
C28_SingleJob == Cardinality(rnr.jobs) <= 1

\* C39: after a consensus job has ended the task-running flag is 0 and
\* stays 0 until the next start request, so that a later request starts a
\* new job, also when the job ends before the handler that started it has
\* set the flag: with no job running and no request being served,
\* TASK_RUNNING is 0.
C39_FlagClearedAfterJob ==
    (rnr.pc = "serve" /\ rnr.jobs = {}
        /\ \A h \in Requests : rnr.handler[h] \in {"idle", "done"})
        => rnr.TASK_RUNNING = 0

----------------------------------------------------------------------------
(* Properties of register_recv_callback, checked under SpecReg *)

\* the number of arguments a callback takes when it is called, as it is at
\* line 658 (a bound method is called without its self)
ArgsTaken(callback) ==
    IF callback.kind = "method" THEN callback.params - 1 ELSE callback.params

\* C29: register_recv_callback makes a callable taking exactly three
\* arguments the active callback; an argument that is not callable fails
\* with a type error, a callable with another argument count with a value
\* error, and in both cases the previous callback stays in effect.
C29_Register ==
    fn.pc = "register" /\ fn.n > 0 =>
        LET callback == fn.callback[1]
        IN  IF callback.kind \notin {"function", "method"}
            THEN fn.exc = "TypeError" /\ cbk.fn = fn.before
            ELSE IF ArgsTaken(callback) = 3
            THEN fn.exc = "none" /\ cbk.fn = Some(callback)
            ELSE fn.exc = "ValueError" /\ cbk.fn = fn.before

----------------------------------------------------------------------------
(* Properties of the transport over the network, checked under Spec *)

SlotOf(store, k) == Slot(store, k[1], k[2])

LastKey == <<last.addr, from_bytes_little(last.tag)>>

\* the datagram a step hands to receive
DeliveredIn(id) == id \in DOMAIN net /\ net'[id] < net[id]

\* a step that is a call of get: nothing is sent, delivered or duplicated
GetStep == sent' = sent /\ net' = net /\ dups' = dups

\* C3: destructive read.  A get(addr, tag) returns what the message store
\* holds for (addr, tag), the full payload after a completed reassembly, and
\* leaves the slot empty; an empty slot stays empty, so every further get
\* returns None, until a new packet for (addr, tag) arrives.
C3_DestructiveRead ==
    [][ /\ \A k \in Keys :
              (SlotOf(data_store', k) # None
                  /\ SlotOf(data_store', k) # SlotOf(data_store, k))
                  => \E id \in DOMAIN net : DeliveredIn(id) /\ PktKey(id) = k
        /\ GetStep =>
              /\ last'.op = "get"
              /\ last'.val = SlotOf(data_store, LastKey')
              /\ SlotOf(data_store', LastKey') = None
      ]_vars

\* a get returned the three-packet message of the first send, and a later
\* get for the same key returned None
C3_Witness ==
    /\ Len(sent) >= 1
    /\ Len(sent[1].packets) = 3
    /\ succ[<<sent[1].addr, from_bytes_little(sent[1].tag)>>] = 1
    /\ last.op = "get"
    /\ LastKey = <<sent[1].addr, from_bytes_little(sent[1].tag)>>
    /\ last.val = None
    /\ \A id \in IdsOf(1) : net[id] = 0

\* C4: no partial message is ever visible.  Whenever the message store holds
\* a message for (addr, tag), so that get would return it, some message sent
\* to (addr, tag) has had all of its fragments delivered since the last
\* successful get.
C4_NoPartialVisible ==
    \A k \in Keys :
        SlotOf(data_store, k) # None
            => \E sid \in SendsOf(k) : IdsOf(sid) \subseteq arrived

\* C5: exactly-once delivery.  Over a network that may duplicate datagrams the
\* number of gets that returned a message for (addr, tag) never exceeds the
\* number of sends issued for (addr, tag).
C5_ExactlyOnce ==
    \A k \in Keys : succ[k] <= Cardinality(SendsOf(k))

\* C6: no corruption.  Every payload returned by get(addr, t) equals the data
\* of one send that the peer at addr issued with tag t.
C6_NoCorruption ==
    (last.op = "get" /\ last.val # None)
        => \E sid \in SendsOf(LastKey) : last.val = Some(sent[sid].data)

\* C10: reassembly reset on seqTotal mismatch.  A packet whose seqTotal
\* differs from the one stored in the open entry of (addr, tag) leaves the
\* entry holding that packet's seqTotal and that packet's fragment only (or,
\* when the packet is a whole message, stores exactly that message); the
\* entry holds, and a stored message is made of, only fragments delivered
\* from the mismatching packet on.
C10_ResetOnMismatch ==
    [][ \A id \in DOMAIN net :
          DeliveredIn(id) =>
            LET p  == Pkt(id)
                k  == PktKey(id)
                e1 == tmp_data'[k[1]][k[2]]
                n  == HdrSeqTotal(p)
            IN  /\ (HasEntry(tmp_data, k)
                        /\ tmp_data[k[1]][k[2]].seq_total # Some(n))
                      => IF n = 0
                         THEN /\ e1.packets = EmptyDict
                              /\ SlotOf(data_store', k) = Some(Payload(p))
                         ELSE /\ e1.seq_total = Some(n)
                              /\ e1.packets = (HdrSeqNum(p) :> Payload(p))
                              /\ SlotOf(data_store', k) = SlotOf(data_store, k)
                /\ \A i \in DOMAIN e1.packets :
                      \E f \in fresh'[k] :
                          /\ HdrSeqNum(Pkt(f)) = i
                          /\ HdrSeqTotal(Pkt(f)) = n
                          /\ Payload(Pkt(f)) = e1.packets[i]
                /\ SlotOf(data_store', k) # SlotOf(data_store, k)
                      => \E pick \in [0..n -> fresh'[k]] :
                            /\ \A i \in 0..n : HdrSeqNum(Pkt(pick[i])) = i
                            /\ SlotOf(data_store', k)
                                 = Some(reassemble(
                                          [i \in 0..n |-> Payload(Pkt(pick[i]))],
                                          n + 1))
      ]_vars

\* a fragment of one message was collected, then a packet of a message with
\* another seqTotal arrived for the same key: the entry holds the new packet
\* alone, under the new seqTotal
C10_Witness ==
    \E k \in Keys : \E id \in fresh[k] :
        /\ fresh[k] = {id}
        /\ HasEntry(tmp_data, k)
        /\ tmp_data[k[1]][k[2]].seq_total = Some(HdrSeqTotal(Pkt(id)))
        /\ tmp_data[k[1]][k[2]].packets = (HdrSeqNum(Pkt(id)) :> Payload(Pkt(id)))
        /\ succ[k] = 0
        /\ SlotOf(data_store, k) = None
        /\ \E id2 \in arrived :
              /\ PktKey(id2) = k
              /\ HdrSeqTotal(Pkt(id2)) # HdrSeqTotal(Pkt(id))

====
